---------------------------- MODULE Spec2Model ----------------------------
(***************************************************************************)
(* Games of Life: the cellular-automaton kernel (compute shader main and   *)
(* its neighbor counting), the double-buffered step pipeline around it and *)
(* the LifeCanvas wrapper's rule/seed handling.                            *)
(*                                                                         *)
(* Cell states, masks and coordinates are WGSL u32 / i32 values.  Every    *)
(* value the model reaches stays far below 2^31, so no arithmetic of the   *)
(* shader wraps inside the bounds explored here.                           *)
(***************************************************************************)
EXTENDS Integers, Sequences, FiniteSets, TLC

VARIABLES
    params,        \* the Params uniform of the compute shader
    cellBuffers,   \* <<buffer, buffer>>: the two cell-state storage buffers
    front,         \* 1 or 2: which of cellBuffers is the front buffer
    generation,    \* the generation counter
    phase,         \* "idle", or "dispatch" while a compute pass is in flight
    pending,       \* global invocation ids of the pass that have not run yet
    writeLog,      \* index -> number of stores to it by the pass in flight
    lastOp,        \* the host operation that produced this state
    completed,     \* number of steps completed since construction
    sinceAlive,    \* per cell: steps since it was last in state 1, -1 unknown
    saved,         \* the host's snapshot: [taken, cells, result, restored]
    edits,         \* number of seed / paint / rule operations so far
    probe,         \* the last boundary resolution asked for, and its answers
    vitalityCurve, \* the anchor points of the vitality curve, <<>> for none
    request,       \* the last reconfiguration asked for: [kind, value, error]
    tape,          \* a frame on its way through the tape: [grid01, stateBits, out]
    agentManager,  \* CellAgentManager: [maxHistoryLength, agents, cleared]
    stepper,       \* the NlcaStepper.step call in flight, or its last result
    frameBuffer,   \* NlcaFrameBuffer: its fields and its computation in flight
    orchestrator,  \* NlcaOrchestrator: [cfg, effectiveConcurrency, callCount]
    decide,        \* one /api/nlca/decide request as the server handles it
    color          \* a cell colour on its way through packCellColorHexToU32

vars == <<params, cellBuffers, front, generation, phase, pending, writeLog,
          lastOp, completed, sinceAlive, saved, edits, probe,
          vitalityCurve, request, tape, agentManager, stepper, frameBuffer,
          orchestrator, decide, color>>

\* the state of the cellular-automaton kernel and its host
kernelVars == <<params, cellBuffers, front, generation, phase, pending,
                writeLog, lastOp, completed, sinceAlive, saved, edits, probe,
                vitalityCurve, request>>

\* the state of the NLCA subsystem (src/lib/nlca)
nlcaVars == <<tape, agentManager, stepper, frameBuffer>>

\* no reconfiguration asked for yet
NoRequest == [kind |-> "none", value |-> <<>>, error |-> FALSE]

\* the NLCA subsystem before anything is constructed
NoTape == [numStates |-> 2, grid01 |-> <<>>, stateBits |-> <<>>, out |-> <<>>,
           op |-> "none"]
NoManager == [maxHistoryLength |-> 20, agents |-> <<>>]
NoStepper == [phase |-> "none"]
NoFrameBuffer == [phase |-> "none"]

\* the orchestrator, the decide endpoint and the colour packing
serviceVars == <<orchestrator, decide, color>>

NoOrchestrator == [phase |-> "none"]
NoDecide == [phase |-> "none"]
NoColor == [phase |-> "none"]

ServiceUnused ==
    /\ orchestrator = NoOrchestrator
    /\ decide = NoDecide
    /\ color = NoColor

NlcaUnused ==
    /\ tape = NoTape
    /\ agentManager = NoManager
    /\ stepper = NoStepper
    /\ frameBuffer = NoFrameBuffer
    /\ ServiceUnused

--------------------------------------------------------------------------
(* Bounds of the model (not program constants).                            *)

\* steps explored from construction
MaxGen == 4
\* seed / paint / rule operations explored in one run
MaxEdits == 2
\* largest numStates explored
MaxStates == 4

--------------------------------------------------------------------------
(* Integer helpers that give WGSL's operators their meaning.               *)

\* WGSL i32 %: the remainder truncates toward zero (sign of the dividend)
Rem(a, b) == IF a >= 0 THEN a % b ELSE 0 - ((0 - a) % b)

\* 1u << n
RECURSIVE Shl1(_)
Shl1(n) == IF n = 0 THEN 1 ELSE 2 * Shl1(n - 1)

\* a & b on unsigned values
RECURSIVE BitAnd(_, _)
BitAnd(a, b) ==
    IF a = 0 \/ b = 0 THEN 0
    ELSE (a % 2) * (b % 2) + 2 * BitAnd(a \div 2, b \div 2)

\* sum of a sequence of integers
RECURSIVE SeqSum(_)
SeqSum(s) == IF s = <<>> THEN 0 ELSE Head(s) + SeqSum(Tail(s))

--------------------------------------------------------------------------
(* The compute shader.                                                     *)

\* workgroup_size(8, 8)
WorkgroupSize == 8

\* boundary_mode and neighborhood codes of struct Params
BoundaryCode(token) ==
    CASE token = "plane" -> 0
      [] token = "cylinderX" -> 1
      [] token = "cylinderY" -> 2
      [] token = "torus" -> 3
      [] token = "mobiusX" -> 4
      [] token = "mobiusY" -> 5
      [] token = "kleinX" -> 6
      [] token = "kleinY" -> 7
      [] token = "projectivePlane" -> 8

NeighborhoodCode(token) ==
    CASE token = "moore" -> 0
      [] token = "vonNeumann" -> 1
      [] token = "extendedMoore" -> 2
      [] token = "hexagonal" -> 3
      [] token = "extendedHexagonal" -> 4

\* get_cell reading the nearest cell of the grid for a coordinate outside it
get_cell_clamped(p, cell_state_in, x, y) ==
    LET cx == IF x < 0 THEN 0 ELSE IF x >= p.width THEN p.width - 1 ELSE x
        cy == IF y < 0 THEN 0 ELSE IF y >= p.height THEN p.height - 1 ELSE y
    IN  cell_state_in[cx + cy * p.width]

\* fn get_cell(x: i32, y: i32) -> u32
get_cell(p, cell_state_in, x, y) ==
    LET w == p.width
        h == p.height
        mode == p.boundary_mode
        out_x == x < 0 \/ x >= w
        out_y == y < 0 \/ y >= h
        wraps_x == mode \in {1, 3, 4, 6, 7, 8}
        flips_x == mode \in {4, 6, 8}
        wraps_y == mode \in {2, 3, 5, 6, 7, 8}
        flips_y == mode \in {5, 7, 8}
        \* after the horizontal block
        fx1 == IF out_x THEN (Rem(x, w) + w) % w ELSE x
        fy1 == IF out_x /\ flips_x THEN h - 1 - y ELSE y
        \* after the vertical block
        fy2 == IF out_y THEN (Rem(fy1, h) + h) % h ELSE fy1
        fx2 == IF out_y /\ flips_y THEN w - 1 - fx1 ELSE fx1
    IN  IF out_x /\ ~wraps_x THEN 0
        ELSE IF out_y /\ ~wraps_y THEN 0
        ELSE IF fx2 < 0 \/ fx2 >= w \/ fy2 < 0 \/ fy2 >= h THEN 0
        ELSE cell_state_in[fx2 + fy2 * p.width]

\* is_alive taking every state but 0 for alive
is_alive_nonzero(state) == state # 0

\* fn is_alive(state: u32) -> bool
is_alive(state) == state = 1

\* the four orthogonal offsets only: the loop without its diagonal cells
MooreOffsets_orthogonal == << <<0, -1>>, <<-1, 0>>, <<1, 0>>, <<0, 1>> >>

\* the offsets each counting function visits, in the order of its calls
MooreOffsets ==
    << <<-1, -1>>, <<0, -1>>, <<1, -1>>,
       <<-1, 0>>,             <<1, 0>>,
       <<-1, 1>>,  <<0, 1>>,  <<1, 1>> >>

VonNeumannOffsets == << <<0, -1>>, <<0, 1>>, <<-1, 0>>, <<1, 0>> >>

ExtendedOffsets ==
    LET cell(k) == << (k % 5) - 2, (k \div 5) - 2 >>
        skip(k) == IF k < 12 THEN k ELSE k + 1
    IN  [k \in 1..24 |-> cell(skip(k - 1))]

\* the hexagonal offsets with the two row parities exchanged
HexagonalOffsets_evenr(y) ==
    IF y % 2 = 0
    THEN << <<0, -1>>, <<1, -1>>, <<-1, 0>>, <<1, 0>>, <<0, 1>>, <<1, 1>> >>
    ELSE << <<-1, -1>>, <<0, -1>>, <<-1, 0>>, <<1, 0>>, <<-1, 1>>, <<0, 1>> >>

HexagonalOffsets(y) ==
    IF y % 2 = 1
    THEN << <<0, -1>>, <<1, -1>>, <<-1, 0>>, <<1, 0>>, <<0, 1>>, <<1, 1>> >>
    ELSE << <<-1, -1>>, <<0, -1>>, <<-1, 0>>, <<1, 0>>, <<-1, 1>>, <<0, 1>> >>

ExtendedHexagonalOffsets(y) ==
    LET is_odd_row == y % 2 = 1
        is_odd_row_m1 == (y - 1) % 2 = 1
        is_odd_row_p1 == (y + 1) % 2 = 1
    IN  HexagonalOffsets(y)
        \o (IF is_odd_row_m1 THEN << <<0, -2>>, <<1, -2>> >>
                             ELSE << <<-1, -2>>, <<0, -2>> >>)
        \o (IF is_odd_row THEN << <<-1, -1>>, <<2, -1>> >>
                          ELSE << <<-2, -1>>, <<1, -1>> >>)
        \o << <<-2, 0>>, <<2, 0>> >>
        \o (IF is_odd_row THEN << <<-1, 1>>, <<2, 1>> >>
                          ELSE << <<-2, 1>>, <<1, 1>> >>)
        \o (IF is_odd_row_p1 THEN << <<0, 2>>, <<1, 2>> >>
                             ELSE << <<-1, 2>>, <<0, 2>> >>)

\* count++ for every visited offset whose cell is alive
CountAlive(p, cell_state_in, x, y, offsets) ==
    SeqSum([k \in 1..Len(offsets) |->
              IF is_alive(get_cell(p, cell_state_in,
                                   x + offsets[k][1], y + offsets[k][2]))
              THEN 1 ELSE 0])

\* count_neighbors_moore without the skip of dx == 0 && dy == 0
count_neighbors_moore_self(p, cell_state_in, x, y) ==
    CountAlive(p, cell_state_in, x, y, MooreOffsets \o << <<0, 0>> >>)

count_neighbors_moore(p, cell_state_in, x, y) ==
    CountAlive(p, cell_state_in, x, y, MooreOffsets)

count_neighbors_von_neumann(p, cell_state_in, x, y) ==
    CountAlive(p, cell_state_in, x, y, VonNeumannOffsets)

count_neighbors_extended(p, cell_state_in, x, y) ==
    CountAlive(p, cell_state_in, x, y, ExtendedOffsets)

\* count_neighbors_hexagonal taking every row for an odd one
count_neighbors_hexagonal_oddr(p, cell_state_in, x, y) ==
    CountAlive(p, cell_state_in, x, y, HexagonalOffsets(1))

count_neighbors_hexagonal(p, cell_state_in, x, y) ==
    CountAlive(p, cell_state_in, x, y, HexagonalOffsets(y))

count_neighbors_extended_hexagonal(p, cell_state_in, x, y) ==
    CountAlive(p, cell_state_in, x, y, ExtendedHexagonalOffsets(y))

\* fn count_neighbors(x: i32, y: i32) -> u32
count_neighbors(p, cell_state_in, x, y) ==
    CASE p.neighborhood = 1 -> count_neighbors_von_neumann(p, cell_state_in, x, y)
      [] p.neighborhood = 2 -> count_neighbors_extended(p, cell_state_in, x, y)
      [] p.neighborhood = 3 -> count_neighbors_hexagonal(p, cell_state_in, x, y)
      [] p.neighborhood = 4 ->
            count_neighbors_extended_hexagonal(p, cell_state_in, x, y)
      [] OTHER -> count_neighbors_moore(p, cell_state_in, x, y)

\* (mask & (1u << neighbors)) != 0u
MaskHas(mask, neighbors) == BitAnd(mask, Shl1(neighbors)) # 0


\* life_like with the birth and survive masks exchanged
life_like_swapped(p, current_state, neighbors) ==
    IF current_state = 0
    THEN (IF MaskHas(p.survive_mask, neighbors) THEN 1 ELSE 0)
    ELSE (IF MaskHas(p.birth_mask, neighbors) THEN 1 ELSE 0)

\* main, numStates == 2: standard Life-like rules
life_like(p, current_state, neighbors) ==
    IF current_state = 0
    THEN (IF MaskHas(p.birth_mask, neighbors) THEN 1 ELSE 0)
    ELSE (IF MaskHas(p.survive_mask, neighbors) THEN 1 ELSE 0)

\* generations without the wrap to 0 at the end of the decay chain
generations_nowrap(p, current_state, neighbors) ==
    IF current_state = 0
    THEN (IF MaskHas(p.birth_mask, neighbors) THEN 1 ELSE 0)
    ELSE IF current_state = 1
    THEN (IF MaskHas(p.survive_mask, neighbors) THEN 1 ELSE 2)
    ELSE current_state + 1

\* generations wrapping one state late (> for >=)
generations_latewrap(p, current_state, neighbors) ==
    IF current_state = 0
    THEN (IF MaskHas(p.birth_mask, neighbors) THEN 1 ELSE 0)
    ELSE IF current_state = 1
    THEN (IF MaskHas(p.survive_mask, neighbors) THEN 1 ELSE 2)
    ELSE (IF current_state + 1 > p.num_states THEN 0 ELSE current_state + 1)

\* generations testing birth for every cell that is not alive
generations_rebirth(p, current_state, neighbors) ==
    IF current_state # 1 /\ MaskHas(p.birth_mask, neighbors) THEN 1
    ELSE IF current_state = 0 THEN 0
    ELSE IF current_state = 1
    THEN (IF MaskHas(p.survive_mask, neighbors) THEN 1 ELSE 2)
    ELSE (IF current_state + 1 >= p.num_states THEN 0 ELSE current_state + 1)

\* main, numStates > 2: Generations rules
generations(p, current_state, neighbors) ==
    IF current_state = 0
    THEN (IF MaskHas(p.birth_mask, neighbors) THEN 1 ELSE 0)
    ELSE IF current_state = 1
    THEN (IF MaskHas(p.survive_mask, neighbors) THEN 1 ELSE 2)
    ELSE (IF current_state + 1 >= p.num_states THEN 0 ELSE current_state + 1)

\* the value main assigns to new_state
new_state(p, current_state, neighbors) ==
    IF p.num_states = 2
    THEN life_like(p, current_state, neighbors)
    ELSE generations(p, current_state, neighbors)

\* main storing live results only: a dead result leaves the old value
main_skipdead(p, cell_state_in, cell_state_out, global_id) ==
    LET x == global_id[1]
        y == global_id[2]
        idx == x + y * p.width
        v == new_state(p, cell_state_in[idx],
                       count_neighbors(p, cell_state_in, x, y))
    IN  IF x >= p.width \/ y >= p.height \/ v = 0 THEN <<>>
        ELSE << <<idx, v>> >>

\* main counting its neighbors in the buffer it writes (in-place update)
main_reads_out(p, cell_state_in, cell_state_out, global_id) ==
    LET x == global_id[1]
        y == global_id[2]
        idx == x + y * p.width
    IN  IF x >= p.width \/ y >= p.height THEN <<>>
        ELSE << <<idx, new_state(p, cell_state_in[idx],
                                 count_neighbors(p, cell_state_out, x, y))>> >>

\* main without its bounds check; a read past the end of the buffer gives 0
main_nobounds(p, cell_state_in, cell_state_out, global_id) ==
    LET x == global_id[1]
        y == global_id[2]
        idx == x + y * p.width
        current_state == IF idx \in DOMAIN cell_state_in
                         THEN cell_state_in[idx] ELSE 0
    IN  << <<idx, new_state(p, current_state,
                            count_neighbors(p, cell_state_in, x, y))>> >>

\* fn main(global_id): the stores of one invocation, as <<index, value>>
\* pairs.  The invocation reads cell_state_in only; cell_state_out is bound
\* read_write and is written at idx.
main(p, cell_state_in, cell_state_out, global_id) ==
    LET x == global_id[1]
        y == global_id[2]
        idx == x + y * p.width
    IN  IF x >= p.width \/ y >= p.height THEN <<>>
        ELSE << <<idx, new_state(p, cell_state_in[idx],
                                 count_neighbors(p, cell_state_in, x, y))>> >>

--------------------------------------------------------------------------
(* The double-buffered step pipeline around the shader.                    *)

Cells(p) == 0 .. (p.width * p.height - 1)

\* one workgroup per started 8x8 tile of the grid
GlobalIds(p) ==
    LET nx == ((p.width + WorkgroupSize - 1) \div WorkgroupSize) * WorkgroupSize
        ny == ((p.height + WorkgroupSize - 1) \div WorkgroupSize) * WorkgroupSize
    IN  (0 .. nx - 1) \X (0 .. ny - 1)

Front == cellBuffers[front]
Back == cellBuffers[3 - front]

\* the store going to the buffer the pass reads (a single buffer updated
\* in place)
StoreResult_inplace(bufs, inB, outB, stores) ==
    IF stores = <<>> \/ stores[1][1] \notin DOMAIN bufs[inB] THEN bufs
    ELSE [bufs EXCEPT ![inB][stores[1][1]] = stores[1][2]]

\* cell_state_out[idx] = new_state, on the buffers bound for this pass:
\* binding 1 (read) is the front buffer, binding 2 (read_write) the back
StoreResult(bufs, inB, outB, stores) ==
    IF stores = <<>> \/ stores[1][1] \notin DOMAIN bufs[outB] THEN bufs
    ELSE [bufs EXCEPT ![outB][stores[1][1]] = stores[1][2]]

\* a whole compute pass: every invocation of the dispatch has run.  Two
\* stores to one index would race; the value kept is then either one.
RunPass(p, bufs, inB, outB) ==
    LET stores == {s \in UNION {
                        {<<g, main(p, bufs[inB], bufs[outB], g)>>} :
                        g \in GlobalIds(p)} : s[2] # <<>>}
        at(i) == {s \in stores : s[2][1][1] = i}
    IN  [bufs EXCEPT ![outB] =
            [i \in DOMAIN bufs[outB] |->
                IF at(i) = {} THEN bufs[outB][i]
                ELSE (CHOOSE s \in at(i) : TRUE)[2][1][2]]]

\* commit_step: swap front and back, bump the generation counter
commit_front(f) == 3 - f

\* a commit that leaves the counter alone
commit_generation_kept(g) == g

commit_generation(g) == g + 1


--------------------------------------------------------------------------
(* The host: the Simulation object and the LifeCanvas wrapper around it.   *)

\* a rule as LifeCanvas passes it (CARuleLike)
Rule(b, s, n, nb) ==
    [birthMask |-> b, surviveMask |-> s, numStates |-> n, neighborhood |-> nb]

\* the Params uniform for a grid, a rule and a boundary mode
MakeParams(w, h, rule, boundary) ==
    [width |-> w, height |-> h,
     birth_mask |-> rule.birthMask, survive_mask |-> rule.surviveMask,
     num_states |-> rule.numStates,
     boundary_mode |-> BoundaryCode(boundary),
     neighborhood |-> NeighborhoodCode(rule.neighborhood)]

\* setRule(rule): the grid and the boundary mode stay
setRule(p, rule) ==
    [p EXCEPT !.birth_mask = rule.birthMask, !.survive_mask = rule.surviveMask,
              !.num_states = rule.numStates,
              !.neighborhood = NeighborhoodCode(rule.neighborhood)]

ZeroBuffer(p) == [i \in Cells(p) |-> 0]

\* no boundary resolution asked for yet
NoProbe == [taken |-> FALSE, x |-> 0, y |-> 0, state |-> 0, at |-> <<>>]

NoSaved == [taken |-> FALSE, cells |-> <<>>, result |-> <<>>, restored |-> FALSE]

\* new Simulation(ctx, {width, height, rule}): zeroed buffers, generation 0
Constructed(w, h, rule, boundary) ==
    /\ params = MakeParams(w, h, rule, boundary)
    /\ cellBuffers = <<ZeroBuffer(params), ZeroBuffer(params)>>
    /\ front = 1
    /\ generation = 0
    /\ phase = "idle"
    /\ pending = {}
    /\ writeLog = <<>>
    /\ lastOp = "new"
    /\ completed = 0
    /\ sinceAlive = [i \in Cells(params) |-> -1]
    /\ saved = NoSaved
    /\ edits = 0
    /\ probe = NoProbe
    /\ vitalityCurve = <<>>
    /\ request = NoRequest
    /\ NlcaUnused

\* the grids, rules and boundary modes the kernel is explored on
KernelGrids == {<<2, 1>>, <<1, 2>>}

KernelRules ==
    {Rule(8, 12, 2, "moore"), Rule(3, 6, 2, "moore"),
     Rule(4, 20, 2, "vonNeumann")}
    \cup {Rule(6, 0, n, "moore") : n \in 3 .. MaxStates}
    \cup {Rule(0, 0, MaxStates, "moore"), Rule(4, 12, 3, "hexagonal")}

KernelBoundaries == {"plane", "torus", "kleinY"}

\* what reset() can leave in the grid: a blank grid, a random grid (with
\* decay states when includeSpectrum is set and numStates > 2), a disk or a
\* stamped pattern of one state
SeedGrids(p) == [Cells(p) -> 0 .. (p.num_states - 1)]

\* the decay bookkeeping restarts whenever the host writes the grid
FreshAges(cells) == [i \in DOMAIN cells |-> IF cells[i] = 1 THEN 0 ELSE -1]

\* the host wrote `cells` into the front buffer between two steps
HostWrites(cells, op) ==
    /\ cellBuffers' = [cellBuffers EXCEPT ![front] = cells]
    /\ sinceAlive' = FreshAges(cells)
    /\ lastOp' = op
    /\ edits' = edits + 1

\* LifeCanvas.reset(): seed the grid again
Reset ==
    /\ phase = "idle"
    /\ edits < MaxEdits
    /\ \E cells \in SeedGrids(params) : HostWrites(cells, "seed")
    /\ UNCHANGED <<nlcaVars, serviceVars, request, vitalityCurve, probe,
                   params, front, generation, phase, pending, writeLog,
                   completed, saved>>

\* LifeCanvas.paintDisk -> paintBrush: `state` into the cells the brush hits
paintBrush(cells, hit, state) ==
    [i \in DOMAIN cells |-> IF i \in hit THEN state ELSE cells[i]]

Paint ==
    /\ phase = "idle"
    /\ edits < MaxEdits
    /\ \E hit \in (SUBSET Cells(params)) \ {{}}, state \in 0 .. (params.num_states - 1) :
          HostWrites(paintBrush(Front, hit, state), "paint")
    /\ UNCHANGED <<nlcaVars, serviceVars, request, vitalityCurve, probe,
                   params, front, generation, phase, pending, writeLog,
                   completed, saved>>

\* step(): one compute pass over the whole grid, then the commit
Step ==
    /\ phase = "idle"
    /\ generation < MaxGen
    /\ cellBuffers' = RunPass(params, cellBuffers, front, 3 - front)
    /\ LET cells == cellBuffers'[3 - front]
       IN  \* the first step from the snapshot: its result is kept for comparison
           /\ saved' = IF saved.taken /\ saved.result = <<>> /\ Front = saved.cells
                       THEN [saved EXCEPT !.result = cells]
                       ELSE saved
           /\ sinceAlive' = [i \in DOMAIN cells |->
                               IF cells[i] = 1 THEN 0
                               ELSE IF sinceAlive[i] = -1 THEN -1
                               ELSE sinceAlive[i] + 1]
    /\ front' = commit_front(front)
    /\ generation' = commit_generation(generation)
    /\ completed' = completed + 1
    /\ lastOp' = "step"
    /\ UNCHANGED <<nlcaVars, serviceVars, request, vitalityCurve, probe,
                   params, phase, pending, writeLog, edits>>


\* LifeCanvas, $effect on `rule`: setRule, and a reset when the neighborhood
\* changed; otherwise the grid is kept as it is
RuleEffect ==
    /\ phase = "idle"
    /\ edits < MaxEdits
    /\ \E rule \in KernelRules :
          LET p == setRule(params, rule)
          IN  /\ p # params
              /\ params' = p
              /\ IF p.neighborhood # params.neighborhood
                 THEN \E cells \in SeedGrids(p) : HostWrites(cells, "seed")
                 ELSE HostWrites(Front, "rule")
    /\ UNCHANGED <<nlcaVars, serviceVars, request, vitalityCurve, probe,
                   front, generation, phase, pending, writeLog,
                   completed, saved>>

\* the kernel driven by the host between whole steps
Init ==
    \E size \in KernelGrids, rule \in KernelRules, boundary \in KernelBoundaries :
        Constructed(size[1], size[2], rule, boundary)

Next == Reset \/ Paint \/ RuleEffect \/ Step

Spec == Init /\ [][Next]_vars


--------------------------------------------------------------------------
(* Properties of the kernel between whole steps (specification Spec).      *)

\* coordinates of linear index i
XOf(p, i) == i % p.width
YOf(p, i) == i \div p.width

\* the neighbor count the last step computed for cell i: that step read
\* what is now the back buffer
LastCount(i) == count_neighbors(params, Back, XOf(params, i), YOf(params, i))

\* bit n of a mask, by division
RECURSIVE Pow2(_)
Pow2(n) == IF n = 0 THEN 1 ELSE 2 * Pow2(n - 1)
BitSet(mask, n) == (mask \div Pow2(n)) % 2 = 1

\* C1: after every completed step, whatever seeds, paints and rule
\* replacements came before it, every cell's state s satisfies
\* 0 <= s < numStates for the rule that step used.
C1_StateRange ==
    lastOp = "step" =>
        \A i \in Cells(params) : Front[i] >= 0 /\ Front[i] < params.num_states

\* a step that read a state outside the rule's range (left by a rule
\* replacement) has completed
C1_Witness ==
    /\ lastOp = "step"
    /\ \E i \in Cells(params) : Back[i] >= params.num_states

\* C6: the generation counter never decreases and grows by exactly one on
\* every completed step: after k completed steps from generation 0 it is k.
C6_GenerationCounts == generation = completed

\* two steps have completed and the host has written the grid since
C6_Witness == completed >= 2 /\ lastOp = "paint"

\* C7 as stated: with numStates = 2 the next state is 1 exactly when (state
\* is 0 and bit n of birthMask is set) or (state is 1 and bit n of
\* surviveMask is set), and 0 in every other case.
C7_LifeLikeAsStated ==
    (lastOp = "step" /\ params.num_states = 2) =>
        \A i \in Cells(params) :
            Front[i] = (IF \/ Back[i] = 0 /\ BitSet(params.birth_mask, LastCount(i))
                           \/ Back[i] = 1 /\ BitSet(params.survive_mask, LastCount(i))
                        THEN 1 ELSE 0)

\* C7 amended: with numStates = 2 the next state is 1 exactly when (state is
\* 0 and bit n of birthMask is set) or (state is not 0 and bit n of
\* surviveMask is set), and 0 in every other case.
C7_LifeLike ==
    (lastOp = "step" /\ params.num_states = 2) =>
        \A i \in Cells(params) :
            Front[i] = (IF \/ Back[i] = 0 /\ BitSet(params.birth_mask, LastCount(i))
                           \/ Back[i] # 0 /\ BitSet(params.survive_mask, LastCount(i))
                        THEN 1 ELSE 0)

\* a two-state step took a cell left in a decay state to state 1
C7_Witness ==
    /\ lastOp = "step"
    /\ params.num_states = 2
    /\ \E i \in Cells(params) : Back[i] >= 2 /\ Front[i] = 1

\* C8: with numStates = N >= 3 a cell that left state 1 k steps ago holds
\* k + 1 while k <= N - 2 and 0 from k = N - 1 on (until it is born again):
\* it takes 2, 3, ..., N-1 and reaches 0 exactly N-1 steps after state 1.
C8_DecayChain ==
    params.num_states >= 3 =>
        \A i \in Cells(params) :
            sinceAlive[i] >= 1 =>
                Front[i] = (IF sinceAlive[i] <= params.num_states - 2
                            THEN sinceAlive[i] + 1 ELSE 0)

\* N = 4: a cell is back at 0 three steps after it was alive
C8_Witness ==
    /\ params.num_states = 4
    /\ \E i \in Cells(params) : sinceAlive[i] = 3 /\ Front[i] = 0

\* C9: with numStates > 2 a cell in a dying state s >= 2 becomes s + 1, or
\* 0 when s + 1 reaches numStates, whatever its neighbor count and the masks.
C9_DyingAdvances ==
    (lastOp = "step" /\ params.num_states > 2) =>
        \A i \in Cells(params) :
            Back[i] >= 2 =>
                Front[i] = (IF Back[i] + 1 < params.num_states
                            THEN Back[i] + 1 ELSE 0)

\* a dying cell whose neighbor count is a birth count has advanced
C9_Witness ==
    /\ lastOp = "step"
    /\ params.num_states > 2
    /\ \E i \in Cells(params) :
          /\ Back[i] >= 2
          /\ BitSet(params.birth_mask, LastCount(i))
          /\ Front[i] = Back[i] + 1


--------------------------------------------------------------------------
(* Snapshot and restore around steps (specification SpecPurity).           *)

PurityGrids == {<<2, 2>>, <<3, 1>>}
PurityRules == {Rule(3, 6, 2, "moore"), Rule(6, 4, 3, "moore"),
                Rule(6, 0, MaxStates, "vonNeumann")}
PurityBoundaries == {"plane", "torus"}

\* snapshot(): a copy of the front buffer
Snapshot ==
    /\ phase = "idle"
    /\ ~saved.taken
    /\ saved' = [taken |-> TRUE, cells |-> Front, result |-> <<>>,
                 restored |-> FALSE]
    /\ lastOp' = "snapshot"
    /\ UNCHANGED <<nlcaVars, serviceVars, request, vitalityCurve, probe,
                   params, cellBuffers, front, generation, phase, pending,
                   writeLog, completed, sinceAlive, edits>>

\* the snapshot written back into the front buffer
Restore ==
    /\ phase = "idle"
    /\ saved.taken
    /\ saved.result # <<>>
    /\ ~saved.restored
    /\ cellBuffers' = [cellBuffers EXCEPT ![front] = saved.cells]
    /\ saved' = [saved EXCEPT !.restored = TRUE]
    /\ sinceAlive' = FreshAges(saved.cells)
    /\ lastOp' = "restore"
    /\ UNCHANGED <<nlcaVars, serviceVars, request, vitalityCurve, probe,
                   params, front, generation, phase, pending, writeLog,
                   completed, edits>>

\* a simulation somewhere in its life: any grid in front, and in the back
\* buffer whatever an earlier step left there
InitPurity ==
    \E size \in PurityGrids, rule \in PurityRules, boundary \in PurityBoundaries :
        LET p == MakeParams(size[1], size[2], rule, boundary)
        IN  \E cells \in SeedGrids(p), old \in 0 .. (rule.numStates - 1) :
              /\ params = p
              /\ cellBuffers = <<cells, [i \in Cells(p) |-> old]>>
              /\ front = 1
              /\ generation = 0
              /\ phase = "idle"
              /\ pending = {}
              /\ writeLog = <<>>
              /\ lastOp = "seed"
              /\ completed = 0
              /\ sinceAlive = FreshAges(cells)
              /\ saved = NoSaved
              /\ edits = 0
              /\ probe = NoProbe
              /\ vitalityCurve = <<>>
              /\ request = NoRequest
              /\ NlcaUnused

NextPurity == Snapshot \/ Step \/ Restore

SpecPurity == InitPurity /\ [][NextPurity]_vars

\* C3: a step's result is a function of the front buffer, the rule (and the
\* vitality table) only: a step from the restored snapshot gives, cell for
\* cell, what the first step from it gave, whatever the back buffer held
\* and whatever the generation counter was.
C3_StepIsFunction ==
    (lastOp = "step" /\ saved.taken /\ saved.result # <<>> /\ Back = saved.cells)
        => Front = saved.result

\* a second step from the restored snapshot has completed, at a later
\* generation than the first, and the step changes the grid
C3_Witness ==
    /\ lastOp = "step"
    /\ saved.restored
    /\ Back = saved.cells
    /\ generation >= 3
    /\ saved.result # saved.cells


--------------------------------------------------------------------------
(* One compute pass, invocation by invocation (specification SpecDispatch). *)

DispatchGrids == {<<2, 2>>, <<3, 1>>, <<1, 3>>, <<8, 1>>, <<9, 1>>}
DispatchRules == {Rule(3, 6, 2, "moore"), Rule(6, 4, 3, "moore"),
                  Rule(4, 12, 3, "hexagonal")}
DispatchBoundaries == {"plane", "torus"}

\* seeds of a pass: every grid of a small lattice, a few of a larger one
DispatchSeeds(p) ==
    IF p.width * p.height <= 3 THEN SeedGrids(p)
    ELSE {[i \in Cells(p) |-> IF i % k = 0 THEN 1 ELSE (i % p.num_states)] :
            k \in 1 .. 3}

InGrid(p, g) == g[1] < p.width /\ g[2] < p.height

\* row-major order of invocation ids
IdBefore(a, b) == a[2] < b[2] \/ (a[2] = b[2] /\ a[1] < b[1])

\* The invocations that may run next.  An invocation outside the grid
\* returns at the bounds check without touching memory, so it commutes with
\* every other one: these run first, in row-major order.  The invocations
\* inside the grid then run in every order.
Runnable ==
    LET outside == {g \in pending : ~InGrid(params, g)}
    IN  IF outside # {}
        THEN {g \in outside : \A o \in outside : o = g \/ IdBefore(g, o)}
        ELSE pending

\* the store count of the indices an invocation stored to
Logged(log, stores) ==
    IF stores = <<>> THEN log
    ELSE LET idx == stores[1][1]
         IN  IF idx \in DOMAIN log THEN [log EXCEPT ![idx] = @ + 1]
             ELSE log @@ (idx :> 1)

\* step() submits the pass: one invocation per id of the dispatch
BeginStep ==
    /\ phase = "idle"
    /\ generation < MaxGen
    /\ phase' = "dispatch"
    /\ pending' = GlobalIds(params)
    /\ writeLog' = <<>>
    /\ UNCHANGED <<nlcaVars, serviceVars, request, vitalityCurve, probe,
                   params, cellBuffers, front, generation, lastOp, completed,
                   sinceAlive, saved, edits>>

\* one invocation of main
Invoke ==
    /\ phase = "dispatch"
    /\ \E g \in Runnable :
          LET stores == main(params, Front, Back, g)
          IN  /\ cellBuffers' = StoreResult(cellBuffers, front, 3 - front, stores)
              /\ writeLog' = Logged(writeLog, stores)
              /\ pending' = pending \ {g}
    /\ UNCHANGED <<nlcaVars, serviceVars, request, vitalityCurve, probe,
                   params, front, generation, phase, lastOp, completed,
                   sinceAlive, saved, edits>>

\* commit_step, once every invocation has run
Commit ==
    /\ phase = "dispatch"
    /\ pending = {}
    /\ phase' = "idle"
    /\ front' = commit_front(front)
    /\ generation' = commit_generation(generation)
    /\ completed' = completed + 1
    /\ lastOp' = "step"
    /\ UNCHANGED <<nlcaVars, serviceVars, request, vitalityCurve, probe,
                   params, cellBuffers, pending, writeLog, sinceAlive, saved,
                   edits>>

\* a seeded simulation between two steps; saved.cells keeps the seed
InitDispatch ==
    \E size \in DispatchGrids, rule \in DispatchRules,
       boundary \in DispatchBoundaries :
        LET p == MakeParams(size[1], size[2], rule, boundary)
        IN  \E cells \in DispatchSeeds(p) :
              /\ params = p
              /\ cellBuffers = <<cells, ZeroBuffer(p)>>
              /\ front = 1
              /\ generation = 0
              /\ phase = "idle"
              /\ pending = {}
              /\ writeLog = <<>>
              /\ lastOp = "seed"
              /\ completed = 0
              /\ sinceAlive = FreshAges(cells)
              /\ saved = [taken |-> TRUE, cells |-> cells, result |-> <<>>,
                          restored |-> FALSE]
              /\ edits = 0
              /\ probe = NoProbe
              /\ vitalityCurve = <<>>
              /\ request = NoRequest
              /\ NlcaUnused

NextDispatch == BeginStep \/ Invoke \/ Commit

SpecDispatch == InitDispatch /\ [][NextDispatch]_vars

\* the grid every cell of which has taken one synchronous transition
NextGrid(p, cells) ==
    [i \in DOMAIN cells |->
        new_state(p, cells[i], count_neighbors(p, cells, XOf(p, i), YOf(p, i)))]

\* the complete grid of generation g grown from a seed
RECURSIVE GridAt(_, _, _)
GridAt(p, seed, g) == IF g = 0 THEN seed ELSE NextGrid(p, GridAt(p, seed, g - 1))

\* snapshot() / get_cell / render: what an observer reads is the front buffer
snapshot == Front

\* the indices stored so far by the pass in flight
Written == DOMAIN writeLog

\* C2: at every point of every interleaving of an observer with a step, the
\* observer reads a complete generation: the whole buffer of generation g
\* until the commit and the whole buffer of generation g + 1 from it on,
\* never some cells of one and some of the other.
C2_ObserverSeesWholeGeneration ==
    snapshot = GridAt(params, saved.cells, generation)

\* a pass is half done: some cells of the next generation are stored, others
\* are not, and the two generations differ
C2_Witness ==
    /\ phase = "dispatch"
    /\ Written # {}
    /\ Written # Cells(params)
    /\ \E i \in Written : Back[i] # Front[i]
    /\ generation >= 1

\* C4: in every order of the invocations of a pass, every cell stored so
\* far holds the synchronous transition of the front buffer, and so does
\* the whole back buffer when the pass is complete.
C4_OrderIndependent ==
    phase = "dispatch" =>
        /\ \A i \in Written \cap Cells(params) :
              Back[i] = NextGrid(params, Front)[i]
        /\ pending = {} => Back = NextGrid(params, Front)

\* invocations ran out of row-major order: a cell is stored before a cell
\* of lower index, whose invocation would see it in a sequential sweep
C4_Witness ==
    /\ phase = "dispatch"
    /\ \E i \in Written, j \in Cells(params) \ Written :
          j < i /\ Back[i] # Front[i]

\* C5: during a pass no index is stored twice and no index outside
\* [0, W*H) is stored; when the pass is complete every index of [0, W*H)
\* has been stored exactly once.
C5_EachIndexOnce ==
    phase = "dispatch" =>
        /\ \A i \in Written : i \in Cells(params) /\ writeLog[i] = 1
        /\ pending = {} => Written = Cells(params)

\* a pass over a grid wider than one workgroup is complete
C5_Witness ==
    /\ phase = "dispatch"
    /\ pending = {}
    /\ params.width > WorkgroupSize
    /\ Written = Cells(params)


--------------------------------------------------------------------------
(* Conway's rule on a 5x5 torus, seeded with a blinker                     *)
(* (specification SpecBlinker).                                            *)

\* Conway's Life: B3/S23, two states, Moore neighborhood
ConwayRule == Rule(8, 12, 2, "moore")

BlinkerParams == MakeParams(5, 5, ConwayRule, "torus")

\* the three cells of a blinker centred at c on the torus
HTriple(p, c) == {<<(c[1] + d) % p.width, c[2]>> : d \in {p.width - 1, 0, 1}}
VTriple(p, c) == {<<c[1], (c[2] + d) % p.height>> : d \in {p.height - 1, 0, 1}}

\* setCell(x, y, 1) for every cell of a pattern, on a cleared grid
Stamped(p, alive) ==
    [i \in Cells(p) |-> IF <<XOf(p, i), YOf(p, i)>> \in alive THEN 1 ELSE 0]

AliveCells(p, cells) ==
    {<<XOf(p, i), YOf(p, i)>> : i \in {j \in DOMAIN cells : cells[j] = 1}}

\* a blinker stamped anywhere on the torus, lying or standing
InitBlinker ==
    \E cx \in 0 .. 4, cy \in 0 .. 4, lying \in BOOLEAN :
        LET p == BlinkerParams
            cells == Stamped(p, IF lying THEN HTriple(p, <<cx, cy>>)
                                         ELSE VTriple(p, <<cx, cy>>))
        IN  /\ params = p
            /\ cellBuffers = <<cells, ZeroBuffer(p)>>
            /\ front = 1
            /\ generation = 0
            /\ phase = "idle"
            /\ pending = {}
            /\ writeLog = <<>>
            /\ lastOp = "seed"
            /\ completed = 0
            /\ sinceAlive = FreshAges(cells)
            /\ saved = [taken |-> TRUE, cells |-> cells, result |-> <<>>,
                        restored |-> FALSE]
            /\ edits = 0
            /\ probe = NoProbe
            /\ vitalityCurve = <<>>
            /\ request = NoRequest
            /\ NlcaUnused

NextBlinker == Step

SpecBlinker == InitBlinker /\ [][NextBlinker]_vars

\* every cell of the grid is dead or alive, and the alive ones are `alive`
ExactlyAlive(alive) ==
    /\ AliveCells(params, Front) = alive
    /\ \A i \in Cells(params) : Front[i] \in {0, 1}

\* C10: on the 5x5 torus under Conway's rule the blinker seeded at
\* (1,2),(2,2),(3,2) is exactly (2,1),(2,2),(2,3) after one step and exactly
\* the seed again after two; the same holds for the blinker centred at any
\* cell, lying or standing: it turns about its centre with period 2.
C10_Blinker ==
    /\ AliveCells(params, saved.cells) = {<<1, 2>>, <<2, 2>>, <<3, 2>>} =>
          /\ generation = 1 => ExactlyAlive({<<2, 1>>, <<2, 2>>, <<2, 3>>})
          /\ generation = 2 => ExactlyAlive({<<1, 2>>, <<2, 2>>, <<3, 2>>})
    /\ \A cx \in 0 .. 4, cy \in 0 .. 4 :
          LET h == HTriple(params, <<cx, cy>>)
              v == VTriple(params, <<cx, cy>>)
              seed == AliveCells(params, saved.cells)
          IN  /\ (seed = h /\ generation % 2 = 1) => ExactlyAlive(v)
              /\ (seed = h /\ generation % 2 = 0) => ExactlyAlive(h)
              /\ (seed = v /\ generation % 2 = 1) => ExactlyAlive(h)
              /\ (seed = v /\ generation % 2 = 0) => ExactlyAlive(v)

\* two steps after the seed (1,2),(2,2),(3,2): the seed again, the standing
\* triple behind it in the back buffer
C10_Witness ==
    /\ generation = 2
    /\ AliveCells(params, saved.cells) = {<<1, 2>>, <<2, 2>>, <<3, 2>>}
    /\ AliveCells(params, Front) = {<<1, 2>>, <<2, 2>>, <<3, 2>>}
    /\ AliveCells(params, Back) = {<<2, 1>>, <<2, 2>>, <<2, 3>>}

--------------------------------------------------------------------------
(* Conway's rule on a 16x16 torus, seeded with a glider                    *)
(* (specification SpecGlider).                                             *)

GliderParams == MakeParams(16, 16, ConwayRule, "torus")

\* the five-cell glider, heading down and to the right
GliderCells == {<<1, 0>>, <<2, 1>>, <<0, 2>>, <<1, 2>>, <<2, 2>>}

\* a pattern moved by d on the torus
Translated(p, pattern, d) ==
    {<<(c[1] + d[1]) % p.width, (c[2] + d[2]) % p.height>> : c \in pattern}

\* a glider stamped anywhere on a cleared torus
InitGlider ==
    \E ox \in 0 .. 15, oy \in 0 .. 15 :
        LET p == GliderParams
            cells == Stamped(p, Translated(p, GliderCells, <<ox, oy>>))
        IN  /\ params = p
            /\ cellBuffers = <<cells, ZeroBuffer(p)>>
            /\ front = 1
            /\ generation = 0
            /\ phase = "idle"
            /\ pending = {}
            /\ writeLog = <<>>
            /\ lastOp = "seed"
            /\ completed = 0
            /\ sinceAlive = FreshAges(cells)
            /\ saved = [taken |-> TRUE, cells |-> cells, result |-> <<>>,
                        restored |-> FALSE]
            /\ edits = 0
            /\ probe = NoProbe
            /\ vitalityCurve = <<>>
            /\ request = NoRequest
            /\ NlcaUnused

NextGlider == Step

SpecGlider == InitGlider /\ [][NextGlider]_vars

\* C11: on the 16x16 torus under Conway's rule, four steps after the seed
\* (1,0),(2,1),(0,2),(1,2),(2,2) the alive cells are exactly the five cells
\* of the seed moved by (+1,+1), every other cell dead; the same holds for
\* the glider seeded at any offset, also where it crosses the torus's edges.
C11_Glider ==
    generation = 4 =>
        /\ AliveCells(params, saved.cells) = GliderCells =>
              ExactlyAlive({<<2, 1>>, <<3, 2>>, <<1, 3>>, <<2, 3>>, <<3, 3>>})
        /\ \A ox \in 0 .. 15, oy \in 0 .. 15 :
              AliveCells(params, saved.cells)
                    = Translated(params, GliderCells, <<ox, oy>>) =>
                 ExactlyAlive(Translated(params, GliderCells, <<ox + 1, oy + 1>>))

\* four steps after the seed (1,0),(2,1),(0,2),(1,2),(2,2): five cells alive
\* and the cell (3,3), dead in the seed, among them
C11_Witness ==
    /\ generation = 4
    /\ completed = 4
    /\ AliveCells(params, saved.cells) = GliderCells
    /\ Cardinality(AliveCells(params, Front)) = 5
    /\ Front[3 + 3 * params.width] = 1

--------------------------------------------------------------------------
(* A 5x5 plane under each neighborhood, seeded with one or two cells       *)
(* (specification SpecPlane).                                              *)

PlaneRules ==
    {ConwayRule, Rule(2, 6, 2, "vonNeumann"), Rule(6, 12, 2, "extendedMoore"),
     Rule(6, 6, 3, "hexagonal"), Rule(12, 6, 2, "extendedHexagonal")}

\* one or two cells set alive on a cleared 5x5 plane
InitPlane ==
    \E rule \in PlaneRules, a \in 0 .. 24, b \in 0 .. 24 :
        LET p == MakeParams(5, 5, rule, "plane")
            cells == [i \in Cells(p) |-> IF i \in {a, b} THEN 1 ELSE 0]
        IN  /\ a <= b
            /\ params = p
            /\ cellBuffers = <<cells, ZeroBuffer(p)>>
            /\ front = 1
            /\ generation = 0
            /\ phase = "idle"
            /\ pending = {}
            /\ writeLog = <<>>
            /\ lastOp = "seed"
            /\ completed = 0
            /\ sinceAlive = FreshAges(cells)
            /\ saved = [taken |-> TRUE, cells |-> cells, result |-> <<>>,
                        restored |-> FALSE]
            /\ edits = 0
            /\ probe = NoProbe
            /\ vitalityCurve = <<>>
            /\ request = NoRequest
            /\ NlcaUnused

NextPlane == Step

SpecPlane == InitPlane /\ [][NextPlane]_vars

\* the neighbor template of the active neighborhood for a cell of row y
TemplateOffsets(p, y) ==
    CASE p.neighborhood = 0 -> MooreOffsets
      [] p.neighborhood = 1 -> VonNeumannOffsets
      [] p.neighborhood = 2 -> ExtendedOffsets
      [] p.neighborhood = 3 -> HexagonalOffsets(y)
      [] p.neighborhood = 4 -> ExtendedHexagonalOffsets(y)

\* the number of template offsets of cell i that stay inside the grid and
\* whose cell was alive before the last step
InsideAlive(i) ==
    LET x == XOf(params, i)
        y == YOf(params, i)
        offs == TemplateOffsets(params, y)
        tx(k) == x + offs[k][1]
        ty(k) == y + offs[k][2]
    IN  Cardinality({k \in 1 .. Len(offs) :
            /\ tx(k) \in 0 .. (params.width - 1)
            /\ ty(k) \in 0 .. (params.height - 1)
            /\ Back[tx(k) + ty(k) * params.width] = 1})

\* C12: on boundary = plane every neighbor offset that leaves the grid
\* contributes 0: the count a step used for a cell is the number of alive
\* cells among the offsets that stay inside the grid, and the cell's new
\* state is the rule applied to that number; a single alive cell at (0,0)
\* of the 5x5 plane under Conway's rule leaves every cell dead after one step.
C12_PlaneAbsent ==
    (lastOp = "step" /\ params.boundary_mode = 0) =>
        /\ \A i \in Cells(params) :
              /\ LastCount(i) = InsideAlive(i)
              /\ Front[i] = new_state(params, Back[i], InsideAlive(i))
        /\ (/\ generation = 1
            /\ AliveCells(params, saved.cells) = {<<0, 0>>}
            /\ params = MakeParams(5, 5, ConwayRule, "plane")) =>
              \A i \in Cells(params) : Front[i] = 0

\* one step after the single alive cell at (0,0) under Conway's rule
C12_Witness ==
    /\ lastOp = "step"
    /\ generation = 1
    /\ params = MakeParams(5, 5, ConwayRule, "plane")
    /\ AliveCells(params, Back) = {<<0, 0>>}
    /\ AliveCells(params, Front) = {}

--------------------------------------------------------------------------
(* The boundary resolution of a neighbor coordinate: the shader's get_cell *)
(* and neighborhood.ts's transformCoordinate, asked for the coordinates    *)
(* the neighbor templates reach (specification SpecResolver).              *)

\* largest grid side explored by the resolver
MaxSide == 3

\* the boundary modes in the order of their boundary_mode codes
BoundaryModes ==
    <<"plane", "cylinderX", "cylinderY", "torus", "mobiusX", "mobiusY",
      "kleinX", "kleinY", "projectivePlane">>

BoundaryToken(code) == BoundaryModes[code + 1]

isWrappingX(boundary) ==
    boundary \in {"cylinderX", "torus", "mobiusX", "kleinX", "kleinY",
                  "projectivePlane"}

isWrappingY(boundary) ==
    boundary \in {"cylinderY", "torus", "mobiusY", "kleinX", "kleinY",
                  "projectivePlane"}

flipsOnWrapX(boundary) == boundary \in {"mobiusX", "kleinX", "projectivePlane"}

\* flipsOnWrapY answering true for kleinX as well
flipsOnWrapY_kleinX(boundary) ==
    boundary \in {"mobiusY", "kleinX", "kleinY", "projectivePlane"}

flipsOnWrapY(boundary) == boundary \in {"mobiusY", "kleinY", "projectivePlane"}

\* transformCoordinate(x, y, width, height, boundary): <<x, y>>, or <<>>
\* for null
transformCoordinate(x, y, width, height, boundary) ==
    LET outX == x < 0 \/ x >= width
        outY == y < 0 \/ y >= height
        xWraps == IF ~outX THEN 0
                  ELSE IF x < 0 THEN ((0 - x - 1) \div width) + 1
                  ELSE x \div width
        fx1 == IF ~outX THEN x
               ELSE IF x < 0 THEN Rem(Rem(x, width) + width, width)
               ELSE Rem(x, width)
        yWraps == IF ~outY THEN 0
                  ELSE IF y < 0 THEN ((0 - y - 1) \div height) + 1
                  ELSE y \div height
        fy1 == IF ~outY THEN y
               ELSE IF y < 0 THEN Rem(Rem(y, height) + height, height)
               ELSE Rem(y, height)
        fy2 == IF flipsOnWrapX(boundary) /\ xWraps % 2 = 1
               THEN height - 1 - fy1 ELSE fy1
        fx2 == IF flipsOnWrapY(boundary) /\ yWraps % 2 = 1
               THEN width - 1 - fx1 ELSE fx1
    IN  IF outX /\ ~isWrappingX(boundary) THEN <<>>
        ELSE IF outY /\ ~isWrappingY(boundary) THEN <<>>
        ELSE IF fx2 < 0 \/ fx2 >= width \/ fy2 < 0 \/ fy2 >= height THEN <<>>
        ELSE <<fx2, fy2>>

\* a grid whose every cell holds a state of its own: cell i holds i + 1
TaggedGrid(p) == [i \in Cells(p) |-> i + 1]

\* a grid of up to MaxSide x MaxSide cells under any boundary mode, every
\* cell in a different state of a Generations rule with enough states
InitResolver ==
    \E w \in 1 .. MaxSide, h \in 1 .. MaxSide, k \in 1 .. Len(BoundaryModes) :
        LET p == MakeParams(w, h, Rule(0, 0, w * h + 1, "extendedMoore"),
                            BoundaryModes[k])
        IN  /\ params = p
            /\ cellBuffers = <<TaggedGrid(p), ZeroBuffer(p)>>
            /\ front = 1
            /\ generation = 0
            /\ phase = "idle"
            /\ pending = {}
            /\ writeLog = <<>>
            /\ lastOp = "seed"
            /\ completed = 0
            /\ sinceAlive = FreshAges(TaggedGrid(p))
            /\ saved = NoSaved
            /\ edits = 0
            /\ probe = NoProbe
            /\ vitalityCurve = <<>>
            /\ request = NoRequest
            /\ NlcaUnused

\* the neighbor of cell i at one offset of the 5x5 template is resolved, by
\* get_cell on the front buffer and by transformCoordinate
Resolve ==
    /\ phase = "idle"
    /\ \E i \in Cells(params), k \in 1 .. Len(ExtendedOffsets) :
          LET x == XOf(params, i) + ExtendedOffsets[k][1]
              y == YOf(params, i) + ExtendedOffsets[k][2]
          IN  probe' = [taken |-> TRUE, x |-> x, y |-> y,
                        state |-> get_cell(params, Front, x, y),
                        at |-> transformCoordinate(x, y, params.width,
                                  params.height,
                                  BoundaryToken(params.boundary_mode))]
    /\ UNCHANGED <<nlcaVars, serviceVars, request, params, cellBuffers, front, generation, phase, pending,
                   writeLog, lastOp, completed, sinceAlive, saved, edits,
                   vitalityCurve>>

NextResolver == Resolve

SpecResolver == InitResolver /\ [][NextResolver]_vars

\* the mode table: the modes whose X axis wraps, whose Y axis wraps, whose
\* X-crossings flip y and whose Y-crossings flip x
TableXWraps ==
    {"cylinderX", "torus", "mobiusX", "kleinX", "kleinY", "projectivePlane"}
TableYWraps ==
    {"cylinderY", "torus", "mobiusY", "kleinX", "kleinY", "projectivePlane"}
TableXFlipsY == {"mobiusX", "kleinX", "projectivePlane"}
TableYFlipsX == {"mobiusY", "kleinY", "projectivePlane"}

ProbeMode == BoundaryToken(params.boundary_mode)

\* the state TaggedGrid holds at a resolved coordinate, 0 for an absent one
TagAt(at) == IF at = <<>> THEN 0 ELSE at[1] + at[2] * params.width + 1

\* the resolution by wrap parity: wx = floor(x / W) and wy = floor(y / H)
\* wraps, each coordinate reduced by modulo, y flipped when wx is odd and
\* X-crossings flip, x flipped when wy is odd and Y-crossings flip
ParityResolved(x, y) ==
    LET w == params.width
        h == params.height
        wx == x \div w
        wy == y \div h
        rx == x % w
        ry == y % h
    IN  IF wx # 0 /\ ProbeMode \notin TableXWraps THEN <<>>
        ELSE IF wy # 0 /\ ProbeMode \notin TableYWraps THEN <<>>
        ELSE << IF wy % 2 # 0 /\ ProbeMode \in TableYFlipsX
                THEN w - 1 - rx ELSE rx,
                IF wx % 2 # 0 /\ ProbeMode \in TableXFlipsY
                THEN h - 1 - ry ELSE ry >>

\* C13 (as stated, for the shader's get_cell): the cell read for a neighbor
\* coordinate is the one at the coordinate resolved by wrap parity, the
\* other coordinate being flipped if and only if the number of wraps on a
\* flipping axis is odd, for positive and negative coordinates, every mode
\* and both axes.
C13_FlipParityAsStated ==
    probe.taken => probe.state = TagAt(ParityResolved(probe.x, probe.y))

\* C13 (transformCoordinate): the coordinate transformCoordinate returns is
\* the one resolved by wrap parity, null exactly for the absent ones.
C13_FlipParityTransform ==
    probe.taken => probe.at = ParityResolved(probe.x, probe.y)

\* mobiusX, width 1: the +2 offset crosses the right edge twice; by wrap
\* parity y is unchanged, transformCoordinate agrees, get_cell reads the
\* flipped row
C13_Witness ==
    /\ probe.taken
    /\ ProbeMode = "mobiusX"
    /\ params.width = 1 /\ params.height >= 2
    /\ probe.x = 2
    /\ probe.y = 0
    /\ probe.at = <<0, 0>>
    /\ probe.state = TagAt(<<0, params.height - 1>>)

\* a coordinate that crosses each edge at most once resolved by the table
SingleCrossing(x, y) ==
    /\ x \in (0 - params.width) .. (2 * params.width - 1)
    /\ y \in (0 - params.height) .. (2 * params.height - 1)

TableResolved(x, y) ==
    LET w == params.width
        h == params.height
        outX == x \notin 0 .. (w - 1)
        outY == y \notin 0 .. (h - 1)
        rx == IF x < 0 THEN x + w ELSE IF x >= w THEN x - w ELSE x
        ry == IF y < 0 THEN y + h ELSE IF y >= h THEN y - h ELSE y
    IN  IF outX /\ ProbeMode \notin TableXWraps THEN <<>>
        ELSE IF outY /\ ProbeMode \notin TableYWraps THEN <<>>
        ELSE << IF outY /\ ProbeMode \in TableYFlipsX THEN w - 1 - rx ELSE rx,
                IF outX /\ ProbeMode \in TableXFlipsY THEN h - 1 - ry ELSE ry >>

\* C14: for each of the nine boundary modes, a coordinate that crosses each
\* edge at most once is resolved as the mode table says, by get_cell and by
\* transformCoordinate alike: absent when it leaves an axis that does not
\* wrap, else wrapped, with y flipped on an X-crossing and x flipped on a
\* Y-crossing exactly in the modes the table marks.
C14_ModeTable ==
    (probe.taken /\ SingleCrossing(probe.x, probe.y)) =>
        /\ probe.at = TableResolved(probe.x, probe.y)
        /\ probe.state = TagAt(TableResolved(probe.x, probe.y))

\* kleinX on a grid two cells high: a coordinate that crosses the right edge
\* and the bottom edge comes back with y flipped and x not
C14_Witness ==
    /\ probe.taken
    /\ ProbeMode = "kleinX"
    /\ params.width = 3 /\ params.height = 2
    /\ probe.x = 3 /\ probe.y = 2
    /\ probe.at = <<0, 1>>
    /\ probe.state = TagAt(<<0, 1>>)

--------------------------------------------------------------------------
(* The hexagonal neighborhoods.                                            *)

\* the six hexagonal neighbors of (x, y) in odd-r offset coordinates
HexNeighbors(x, y) ==
    {<<x - 1, y>>, <<x + 1, y>>}
    \cup (IF y % 2 = 1
          THEN {<<x, y - 1>>, <<x + 1, y - 1>>, <<x, y + 1>>, <<x + 1, y + 1>>}
          ELSE {<<x - 1, y - 1>>, <<x, y - 1>>, <<x - 1, y + 1>>, <<x, y + 1>>})

\* the coordinates of a set that lie inside the grid
InsideGrid(coords) ==
    {c \in coords : /\ c[1] \in 0 .. (params.width - 1)
                    /\ c[2] \in 0 .. (params.height - 1)}

\* C15: in the hexagonal neighborhood the neighbors of cell (x,y) are
\* (x-1,y) and (x+1,y) plus, when y is odd, (x,y-1),(x+1,y-1),(x,y+1),
\* (x+1,y+1) and, when y is even, (x-1,y-1),(x,y-1),(x-1,y+1),(x,y+1): on
\* the plane the count a step used for a cell is the number of alive cells
\* among those six that lie inside the grid.
C15_HexNeighbors ==
    (lastOp = "step" /\ params.neighborhood = 3 /\ params.boundary_mode = 0) =>
        \A i \in Cells(params) :
            LastCount(i) =
                Cardinality({c \in InsideGrid(HexNeighbors(XOf(params, i),
                                                          YOf(params, i))) :
                                Back[c[1] + c[2] * params.width] = 1})

\* one alive cell at (3,0): on the odd row 1 it is a neighbor of (2,1) and
\* of (3,1) and not of (4,1), and (2,1) is born
C15_Witness ==
    /\ lastOp = "step"
    /\ generation = 1
    /\ params.neighborhood = 3
    /\ AliveCells(params, Back) = {<<3, 0>>}
    /\ LastCount(2 + 1 * params.width) = 1
    /\ LastCount(3 + 1 * params.width) = 1
    /\ LastCount(4 + 1 * params.width) = 0
    /\ Front[2 + 1 * params.width] = 1

\* hexagonal B6/S6, and extendedHexagonal B18/S18
HexRingRule == Rule(64, 64, 2, "hexagonal")
ExtendedHexRule == Rule(262144, 262144, 2, "extendedHexagonal")

\* a centre cell with the cells right and left of it and the two cells
\* above and the two below at x and x + 1
RightLeaningRing(c) ==
    {c, <<c[1], c[2] - 1>>, <<c[1] + 1, c[2] - 1>>, <<c[1] - 1, c[2]>>,
     <<c[1] + 1, c[2]>>, <<c[1], c[2] + 1>>, <<c[1] + 1, c[2] + 1>>}

\* a 5x5 grid: a plane seeded with a centre cell and six cells around it
\* under the hexagonal rule, or a plane or torus filled, but for one cell at
\* most, under the extendedHexagonal rule
InitHex ==
    \E kind \in {"leaning", "ring", "full", "holed"}, cx \in 0 .. 4,
       cy \in 0 .. 4, boundary \in {"plane", "torus"} :
        LET rule == IF kind \in {"full", "holed"} THEN ExtendedHexRule
                    ELSE HexRingRule
            p == MakeParams(5, 5, rule, boundary)
            inside(cs) == {c \in cs : c[1] \in 0 .. 4 /\ c[2] \in 0 .. 4}
            alive == CASE kind = "leaning" -> inside(RightLeaningRing(<<cx, cy>>))
                       [] kind = "ring" ->
                            inside({<<cx, cy>>} \cup HexNeighbors(cx, cy))
                       [] kind = "full" -> (0 .. 4) \X (0 .. 4)
                       [] kind = "holed" ->
                            ((0 .. 4) \X (0 .. 4)) \ {<<cx, cy>>}
            cells == Stamped(p, alive)
        IN  /\ kind \in {"leaning", "ring"} => boundary = "plane"
            /\ kind = "full" => (cx = 0 /\ cy = 0)
            /\ params = p
            /\ cellBuffers = <<cells, ZeroBuffer(p)>>
            /\ front = 1
            /\ generation = 0
            /\ phase = "idle"
            /\ pending = {}
            /\ writeLog = <<>>
            /\ lastOp = "seed"
            /\ completed = 0
            /\ sinceAlive = FreshAges(cells)
            /\ saved = [taken |-> TRUE, cells |-> cells, result |-> <<>>,
                        restored |-> FALSE]
            /\ edits = 0
            /\ probe = NoProbe
            /\ vitalityCurve = <<>>
            /\ request = NoRequest
            /\ NlcaUnused

NextHex == Step

SpecHex == InitHex /\ [][NextHex]_vars

\* the seed of scenario S5: the centre (2,2) and the six cells around it
S5Seed ==
    {<<2, 2>>, <<2, 1>>, <<3, 1>>, <<1, 2>>, <<3, 2>>, <<2, 3>>, <<3, 3>>}

S5Started ==
    /\ generation = 1
    /\ params = MakeParams(5, 5, HexRingRule, "plane")
    /\ AliveCells(params, saved.cells) = S5Seed

\* C16 (as stated): one step after the S5 seed on the 5x5 hexagonal plane
\* under B6/S6 the centre cell (2,2) is alive and the six cells around it
\* are dead.
C16_HexRingAsStated ==
    S5Started =>
        /\ Front[2 + 2 * params.width] = 1
        /\ \A c \in S5Seed \ {<<2, 2>>} : Front[c[1] + c[2] * params.width] = 0

\* C16 (amended): one step after the S5 seed every cell is dead: the centre
\* (2,2) lies on an even row, four of its six hexagonal neighbors are in the
\* seed and B6/S6 lets it die.  Seeded with its six hexagonal neighbors
\* instead, a centre cell away from the edge is alive after one step and
\* the six cells around it are dead.
C16_HexRing ==
    /\ S5Started =>
          /\ LastCount(2 + 2 * params.width) = 4
          /\ \A i \in Cells(params) : Front[i] = 0
    /\ \A cx \in 1 .. 3, cy \in 1 .. 3 :
          (/\ generation = 1
           /\ params = MakeParams(5, 5, HexRingRule, "plane")
           /\ AliveCells(params, saved.cells)
                 = {<<cx, cy>>} \cup HexNeighbors(cx, cy)) =>
              /\ LastCount(cx + cy * params.width) = 6
              /\ AliveCells(params, Front) = {<<cx, cy>>}

\* one step after the S5 seed: the centre was alive and is dead
C16_Witness ==
    /\ S5Started
    /\ Back[2 + 2 * params.width] = 1
    /\ Front[2 + 2 * params.width] = 0

\* the distinct offsets count_neighbors_extended_hexagonal visits on row y
VisitedOffsets(y) ==
    {ExtendedHexagonalOffsets(y)[k] : k \in 1 .. Len(ExtendedHexagonalOffsets(y))}

\* one step was taken under extendedHexagonal from a grid with every cell
\* of every neighborhood alive
FullNeighborhoods ==
    /\ lastOp = "step"
    /\ params.neighborhood = 4
    /\ params.boundary_mode = 3
    /\ \A i \in Cells(params) : Back[i] = 1

\* C17 (as stated): in the extendedHexagonal neighborhood a cell of either
\* row parity has exactly 18 distinct neighbor offsets, none of them the
\* cell itself, and a cell whose whole neighborhood is alive gets the
\* neighbor count 18.
C17_EighteenOffsetsAsStated ==
    (lastOp = "step" /\ params.neighborhood = 4) =>
        /\ \A y \in 0 .. (params.height - 1) :
              /\ Cardinality(VisitedOffsets(y)) = 18
              /\ <<0, 0>> \notin VisitedOffsets(y)
        /\ FullNeighborhoods => \A i \in Cells(params) : LastCount(i) = 18

\* C17 (the shader): count_neighbors_extended_hexagonal visits 16 distinct
\* offsets on a row of either parity, the 6 of the inner ring and 10 more,
\* none repeated and none the cell itself; a cell whose whole neighborhood
\* is alive gets the neighbor count 16.
C17_SixteenOffsets ==
    (lastOp = "step" /\ params.neighborhood = 4) =>
        /\ \A y \in 0 .. (params.height - 1) :
              /\ Cardinality(VisitedOffsets(y)) = 16
              /\ Len(ExtendedHexagonalOffsets(y)) = 16
              /\ <<0, 0>> \notin VisitedOffsets(y)
              /\ {HexagonalOffsets(y)[k] : k \in 1 .. 6} \subseteq VisitedOffsets(y)
        /\ FullNeighborhoods => \A i \in Cells(params) : LastCount(i) = 16

\* a full 5x5 torus under B18/S18: every cell counted 16 and died
C17_Witness ==
    /\ FullNeighborhoods
    /\ generation = 1
    /\ LastCount(2 + 2 * params.width) = 16
    /\ \A i \in Cells(params) : Front[i] = 0

--------------------------------------------------------------------------
(* The vitality curve and the neighbor aggregation weighted by it          *)
(* (specification SpecVitality).  Weights are kept exact: an anchor is     *)
(* <<x, y>> with x in units of 1 / XUnit, and a weight is an integer       *)
(* number of 1 / WeightDen.                                                *)

\* the vitality table has 128 samples
VitalitySamples == 128

\* anchor abscissas are multiples of 1/2
XUnit == 2

WeightDen == (VitalitySamples - 1) * XUnit

\* sampleVitalityCurve(points)[k], in units of 1 / WeightDen: the linear
\* interpolation at x = k / 127 between the two anchors around it; 0 when
\* fewer than two anchors are present
sampleVitalityCurve(curve, k) ==
    IF Len(curve) < 2 THEN 0
    ELSE LET at == k * XUnit
             n == VitalitySamples - 1
             a == CHOOSE j \in 1 .. (Len(curve) - 1) :
                      /\ curve[j][1] * n <= at
                      /\ at <= curve[j + 1][1] * n
             xa == curve[a][1]
             ya == curve[a][2]
             xb == curve[a + 1][1]
             yb == curve[a + 1][2]
         IN  ya * WeightDen
                 + ((at - n * xa) * (yb - ya) * XUnit) \div (xb - xa)

\* the largest count of each neighborhood
MaxCount(neighborhood) ==
    CASE neighborhood = 0 -> 8
      [] neighborhood = 1 -> 4
      [] neighborhood = 2 -> 24
      [] neighborhood = 3 -> 6
      [] neighborhood = 4 -> 18

\* the weight a resolved neighbor in state s contributes
neighbor_weight(p, curve, s) ==
    IF s = 1 THEN WeightDen
    ELSE IF s >= 2 /\ s < p.num_states
    THEN sampleVitalityCurve(curve,
            ((VitalitySamples - 1) * (p.num_states - s)) \div (p.num_states - 1))
    ELSE 0

\* the sum of the weights over the neighbor template of (x, y)
weight_sum(p, curve, cells, x, y) ==
    LET offs == TemplateOffsets(p, y)
    IN  SeqSum([k \in 1 .. Len(offs) |->
                  neighbor_weight(p, curve,
                        get_cell(p, cells, x + offs[k][1], y + offs[k][2]))])

\* the effective count clamped below at 0 only
effective_count_uncapped(p, curve, cells, x, y) ==
    LET total == weight_sum(p, curve, cells, x, y)
    IN  IF total < 0 THEN 0 ELSE total \div WeightDen

\* the effective count rounded to the nearest integer
effective_count_rounded(p, curve, cells, x, y) ==
    LET total == weight_sum(p, curve, cells, x, y)
        top == MaxCount(p.neighborhood) * WeightDen
        clamped == IF total < 0 THEN 0 ELSE IF total > top THEN top ELSE total
    IN  (clamped + (VitalitySamples - 1)) \div WeightDen

\* the effective neighbor count: the summed weights clamped to
\* [0, maxCount] and truncated to an integer
effective_count(p, curve, cells, x, y) ==
    LET total == weight_sum(p, curve, cells, x, y)
        top == MaxCount(p.neighborhood) * WeightDen
        clamped == IF total < 0 THEN 0 ELSE IF total > top THEN top ELSE total
    IN  clamped \div WeightDen

\* the curves explored: none, the diagonal (0,0),(1,1), the flat curves at
\* +2 and at -2, and a three-anchor curve (0,-2),(1/2,2),(1,0)
VitalityCurves ==
    {<<>>,
     << <<0, 0>>, <<2, 1>> >>,
     << <<0, 2>>, <<2, 2>> >>,
     << <<0, -2>>, <<2, -2>> >>,
     << <<0, -2>>, <<1, 2>>, <<2, 0>> >>}

\* grids smaller than every neighborhood
TinyGrids == {<<1, 1>>, <<2, 1>>, <<1, 2>>}

\* a four-state Conway rule on the 3x3 torus with up to four cells alive or
\* in their first decay state, or a tiny grid in any state under any
\* neighborhood and boundary mode; any of the curves
InitVitality ==
    \E curve \in VitalityCurves, tiny \in BOOLEAN,
       size \in TinyGrids, k \in 1 .. Len(BoundaryModes),
       nb \in {"moore", "vonNeumann", "extendedMoore", "hexagonal",
               "extendedHexagonal"} :
        LET p == IF tiny
                 THEN MakeParams(size[1], size[2], Rule(6, 6, 3, nb),
                                 BoundaryModes[k])
                 ELSE MakeParams(3, 3, Rule(8, 12, 4, "moore"), "torus")
        IN  /\ ~tiny => (size = <<1, 1>> /\ k = 1 /\ nb = "moore")
            /\ params = p
            /\ \E cells \in [Cells(p) -> 0 .. 2] :
                  /\ ~tiny => Cardinality({i \in Cells(p) : cells[i] # 0}) <= 4
                  /\ cellBuffers = <<cells, ZeroBuffer(p)>>
                  /\ sinceAlive = FreshAges(cells)
                  /\ saved = [taken |-> TRUE, cells |-> cells,
                              result |-> <<>>, restored |-> FALSE]
            /\ front = 1
            /\ generation = 0
            /\ phase = "idle"
            /\ pending = {}
            /\ writeLog = <<>>
            /\ lastOp = "seed"
            /\ completed = 0
            /\ edits = 0
            /\ probe = NoProbe
            /\ vitalityCurve = curve
            /\ request = NoRequest
            /\ NlcaUnused

\* step() with the vitality curve: every cell's new state from its state in
\* the front buffer and its effective neighbor count, then the commit
StepVitality ==
    /\ phase = "idle"
    /\ generation < MaxGen
    /\ cellBuffers' =
          [cellBuffers EXCEPT ![3 - front] =
              [i \in Cells(params) |->
                  new_state(params, Front[i],
                            effective_count(params, vitalityCurve, Front,
                                            XOf(params, i), YOf(params, i)))]]
    /\ sinceAlive' = [i \in Cells(params) |->
                        IF cellBuffers'[3 - front][i] = 1 THEN 0
                        ELSE IF sinceAlive[i] = -1 THEN -1
                        ELSE sinceAlive[i] + 1]
    /\ front' = commit_front(front)
    /\ generation' = commit_generation(generation)
    /\ completed' = completed + 1
    /\ lastOp' = "step"
    /\ UNCHANGED <<nlcaVars, serviceVars, request, vitalityCurve, probe, params, phase, pending, writeLog,
                   edits, saved>>

NextVitality == StepVitality

SpecVitality == InitVitality /\ [][NextVitality]_vars

\* the effective count and the summed weights the last step used for cell i
LastEffective(i) ==
    effective_count(params, vitalityCurve, Back, XOf(params, i), YOf(params, i))

LastWeightSum(i) ==
    weight_sum(params, vitalityCurve, Back, XOf(params, i), YOf(params, i))

\* C18: for every cell, neighborhood, boundary mode, grid (also grids
\* smaller than the neighborhood) and vitality curve with values in
\* [-2, 2], the neighbor count that indexes the rule masks is an integer n
\* with 0 <= n <= maxCount of the neighborhood (8, 4, 24, 6 or 18): the
\* effective count of the weighted aggregation, and the shader's count.
C18_CountInRange ==
    lastOp = "step" =>
        \A i \in Cells(params) :
            /\ LastEffective(i) \in 0 .. MaxCount(params.neighborhood)
            /\ LastCount(i) \in 0 .. MaxCount(params.neighborhood)

\* a 1x1 torus under the Moore neighborhood whose one cell is in its first
\* decay state, the curve flat at +2: the eight neighbors are the cell
\* itself, the weights sum to 16 and the count used is 8
C18_Witness ==
    /\ lastOp = "step"
    /\ generation = 1
    /\ params.width = 1 /\ params.height = 1
    /\ params.boundary_mode = 3
    /\ params.neighborhood = 0
    /\ Back[0] = 2
    /\ LastWeightSum(0) = 16 * WeightDen
    /\ LastEffective(0) = 8

\* the curve of scenario S6: the anchors (0,0) and (1,1)
S6Curve == << <<0, 0>>, <<2, 1>> >>

\* one step was taken on the 3x3 torus under four-state B3/S23 from a grid
\* with `alive` cells in state 1, `decaying` cells in state 2, the rest dead
S6Started(alive, decaying) ==
    /\ lastOp = "step"
    /\ generation = 1
    /\ params = MakeParams(3, 3, Rule(8, 12, 4, "moore"), "torus")
    /\ Cardinality({i \in Cells(params) : Back[i] = 1}) = alive
    /\ Cardinality({i \in Cells(params) : Back[i] = 2}) = decaying
    /\ \A i \in Cells(params) : Back[i] \in {0, 1, 2}

ZeroCurves == {<<>>, << <<0, 0>>, <<2, 0>> >>}

\* the number of template offsets of cell i whose resolved cell was in
\* state 1 exactly before the last step
ResolvedAlive(i) ==
    LET x == XOf(params, i)
        y == YOf(params, i)
        offs == TemplateOffsets(params, y)
    IN  Cardinality({k \in 1 .. Len(offs) :
            get_cell(params, Back, x + offs[k][1], y + offs[k][2]) = 1})

\* C19: the neighbor count of every cell is the number of its resolved
\* neighbors whose state is exactly 1, neighbors in dying states
\* contributing nothing: for the shader's count, and for the weighted
\* aggregation whenever the curve is identically zero or numStates = 2.
C19_ClassicalCount ==
    lastOp = "step" =>
        \A i \in Cells(params) :
            /\ LastCount(i) = ResolvedAlive(i)
            /\ \A curve \in VitalityCurves \cup ZeroCurves :
                  (curve \in ZeroCurves \/ params.num_states = 2) =>
                      effective_count(params, curve, Back,
                                      XOf(params, i), YOf(params, i))
                          = ResolvedAlive(i)

\* a 2x1 plane under a rule with decay states: the alive cell's one
\* neighbor is dying and counts for nothing, the dying cell's one neighbor
\* is alive and counts for one
C19_Witness ==
    /\ lastOp = "step"
    /\ params.width = 2 /\ params.height = 1
    /\ params.boundary_mode = 0
    /\ params.neighborhood = 0
    /\ params.num_states > 2
    /\ Back[0] = 1 /\ Back[1] = 2
    /\ LastCount(0) = 0
    /\ LastCount(1) = 1

--------------------------------------------------------------------------
(* The NLCA subsystem (src/lib/nlca).                                      *)

\* the kernel's variables while only the NLCA subsystem runs
KernelUnused ==
    LET p == MakeParams(1, 1, ConwayRule, "plane")
    IN  /\ params = p
        /\ cellBuffers = <<ZeroBuffer(p), ZeroBuffer(p)>>
        /\ front = 1
        /\ generation = 0
        /\ phase = "idle"
        /\ pending = {}
        /\ writeLog = <<>>
        /\ lastOp = "construct"
        /\ completed = 0
        /\ sinceAlive = FreshAges(ZeroBuffer(p))
        /\ saved = NoSaved
        /\ edits = 0
        /\ probe = NoProbe
        /\ vitalityCurve = <<>>
        /\ request = NoRequest

--------------------------------------------------------------------------
(* The tape's frame format: pack01ToBitset and unpackBitsetTo01.  The      *)
(* arrays are indexed from 0 in the code and from 1 here: cell i is        *)
(* element i + 1, byte j is element j + 1.                                 *)

\* longest grid packed
MaxCells == 9

\* a | b on unsigned values
RECURSIVE BitOr(_, _)
BitOr(a, b) ==
    IF a = 0 THEN b
    ELSE IF b = 0 THEN a
    ELSE (IF a % 2 = 1 \/ b % 2 = 1 THEN 1 ELSE 0)
         + 2 * BitOr(a \div 2, b \div 2)

\* Math.ceil(n / 8)
CeilDiv8(n) == (n + 7) \div 8

\* the loop of pack01ToBitset from cell i on; bytes is the Uint8Array so far
RECURSIVE PackFrom(_, _, _)
PackFrom(grid01, i, bytes) ==
    IF i >= Len(grid01) THEN bytes
    ELSE LET bit == IF grid01[i + 1] = 0 THEN 0 ELSE 1
         IN  PackFrom(grid01, i + 1,
                 IF bit = 1
                 THEN [bytes EXCEPT ![(i \div 8) + 1] =
                                        BitOr(@, Shl1(i % 8)) % 256]
                 ELSE bytes)

\* export function pack01ToBitset(grid01)
pack01ToBitset(grid01) ==
    PackFrom(grid01, 0, [j \in 1 .. CeilDiv8(Len(grid01)) |-> 0])

\* unpack that reads every bit from the first byte
unpackBitsetTo01_firstbyte(bits, nCells) ==
    [k \in 1 .. nCells |-> (bits[1] \div Shl1((k - 1) % 8)) % 2]

\* export function unpackBitsetTo01(bits, nCells)
unpackBitsetTo01(bits, nCells) ==
    [k \in 1 .. nCells |->
        LET i == k - 1
        IN  BitAnd(bits[(i \div 8) + 1] \div Shl1(i % 8), 1)]

\* the grids of 0 .. n cells with states 0 and 1
RECURSIVE Grids01(_)
Grids01(n) ==
    IF n = 0 THEN {<<>>}
    ELSE LET shorter == Grids01(n - 1)
         IN  shorter \cup {Append(g, s) : g \in {h \in shorter : Len(h) = n - 1},
                                          s \in 0 .. 1}

\* a snapshot of a rule with numStates states reaches the tape: any 0/1
\* grid of up to MaxCells cells, with at most one cell in a dying state
InitTape ==
    /\ KernelUnused
    /\ ServiceUnused
    /\ agentManager = NoManager
    /\ stepper = NoStepper
    /\ frameBuffer = NoFrameBuffer
    /\ \E numStates \in 2 .. MaxStates, g \in Grids01(MaxCells) :
          \/ tape = [numStates |-> numStates, grid01 |-> g, stateBits |-> <<>>,
                     out |-> <<>>, op |-> "snapshot"]
          \/ \E k \in 1 .. Len(g), s \in 2 .. (numStates - 1) :
                tape = [numStates |-> numStates,
                        grid01 |-> [g EXCEPT ![k] = s],
                        stateBits |-> <<>>, out |-> <<>>, op |-> "snapshot"]

\* the frame is packed for the tape
Pack ==
    /\ tape.op = "snapshot"
    /\ tape' = [tape EXCEPT !.stateBits = pack01ToBitset(tape.grid01),
                            !.op = "packed"]
    /\ UNCHANGED <<kernelVars, serviceVars, agentManager, stepper, frameBuffer>>

\* the frame is read back (NlcaPlaybackModal: nCells = width * height)
Unpack ==
    /\ tape.op = "packed"
    /\ tape' = [tape EXCEPT
                   !.out = unpackBitsetTo01(tape.stateBits, Len(tape.grid01)),
                   !.op = "unpacked"]
    /\ UNCHANGED <<kernelVars, serviceVars, agentManager, stepper, frameBuffer>>

NextTape == Pack \/ Unpack

SpecTape == InitTape /\ [][NextTape]_vars

\* C21: for numStates = 2 (every cell 0 or 1) and every grid length,
\* multiples of 8 or not, unpacking the packed grid with the same number of
\* cells gives the grid back
C21_RoundTrip ==
    (tape.op = "unpacked" /\ tape.numStates = 2) => tape.out = tape.grid01

\* a 9-cell grid, whose last cell is alive in the second byte, went round
C21_Witness ==
    /\ tape.op = "unpacked"
    /\ tape.numStates = 2
    /\ Len(tape.grid01) = 9
    /\ tape.grid01[9] = 1
    /\ tape.grid01[1] = 0
    /\ tape.stateBits[2] = 1

\* C22 as stated: for numStates > 2 the round trip gives the alive
\* projection, 1 exactly where the snapshot holds 1, and 0 for dying cells
C22_AliveProjectionAsStated ==
    (tape.op = "unpacked" /\ tape.numStates > 2) =>
        \A k \in 1 .. Len(tape.grid01) :
            tape.out[k] = (IF tape.grid01[k] = 1 THEN 1 ELSE 0)

\* C22 as the code has it: the round trip gives 1 exactly where the snapshot
\* is not 0, so a dying cell comes back as 1
C22_NonzeroProjection ==
    (tape.op = "unpacked" /\ tape.numStates > 2) =>
        \A k \in 1 .. Len(tape.grid01) :
            tape.out[k] = (IF tape.grid01[k] = 0 THEN 0 ELSE 1)

\* a snapshot with a dying cell went round
C22_Witness ==
    /\ tape.op = "unpacked"
    /\ tape.numStates > 2
    /\ \E k \in 1 .. Len(tape.grid01) : tape.grid01[k] >= 2 /\ tape.out[k] = 1

--------------------------------------------------------------------------
(* Reconfiguration between steps and its configuration errors.  The        *)
(* checks themselves belong to the Simulation class, which is not part of  *)
(* the sources at hand; they follow the error handling design.  The caller *)
(* is LifeCanvas' $effect on `rule`.                                       *)

\* largest numStates accepted
MaxNumStates == 1024

NeighborhoodTokens ==
    {"moore", "vonNeumann", "extendedMoore", "hexagonal", "extendedHexagonal"}

BoundaryTokens == {BoundaryModes[k] : k \in 1 .. Len(BoundaryModes)}

\* the rule check that leaves numStates unchecked
ValidRule_tokenonly(rule) == rule.neighborhood \in NeighborhoodTokens

ValidRule(rule) ==
    /\ rule.numStates >= 2
    /\ rule.numStates <= MaxNumStates
    /\ rule.neighborhood \in NeighborhoodTokens

ValidSize(size) == size[1] > 0 /\ size[2] > 0

ValidBoundary(token) == token \in BoundaryTokens

\* anchors strictly increasing in x
ValidAnchors(curve) ==
    \A k \in 1 .. (Len(curve) - 1) : curve[k][1] < curve[k + 1][1]

ValidRequest(kind, value) ==
    CASE kind = "resize" -> ValidSize(value)
      [] kind = "rule" -> ValidRule(value)
      [] kind = "boundary" -> ValidBoundary(value)
      [] kind = "vitality" -> ValidAnchors(value)

\* the reconfigurations asked for: sizes around 0, rules with numStates
\* around 2 and around MaxNumStates, known and unknown tokens, curves with
\* increasing, equal and decreasing x
ConfigRequests ==
    {[kind |-> "resize", value |-> <<w, h>>] : w \in -1 .. 2, h \in 0 .. 1}
    \cup {[kind |-> "rule", value |-> Rule(8, 12, n, nb)] :
             n \in {1, 2, 3, MaxNumStates, MaxNumStates + 1},
             nb \in {"moore", "vonNeumann", "triangular"}}
    \cup {[kind |-> "boundary", value |-> token] :
             token \in {"plane", "torus", "sphere"}}
    \cup {[kind |-> "vitality", value |-> curve] :
             curve \in VitalityCurves
                       \cup {<< <<0, 0>>, <<0, 1>> >>,
                             << <<0, 0>>, <<2, 1>>, <<1, 0>> >>}}

\* reset() with a blank seed or a pattern stamped in state 1
ConfigSeeds(p) == [Cells(p) -> 0 .. 1]

\* the Params after an accepted request
Reconfigured(p, kind, value) ==
    CASE kind = "resize" -> [p EXCEPT !.width = value[1], !.height = value[2]]
      [] kind = "rule" -> setRule(p, value)
      [] kind = "boundary" -> [p EXCEPT !.boundary_mode = BoundaryCode(value)]
      [] kind = "vitality" -> p

\* a small simulation, seeded
InitConfig ==
    \E rule \in {ConwayRule, Rule(6, 0, 3, "moore")}, boundary \in {"torus"} :
        LET p == MakeParams(2, 1, rule, boundary)
        IN  \E cells \in ConfigSeeds(p) :
              /\ params = p
              /\ cellBuffers = <<cells, ZeroBuffer(p)>>
              /\ front = 1
              /\ generation = 0
              /\ phase = "idle"
              /\ pending = {}
              /\ writeLog = <<>>
              /\ lastOp = "seed"
              /\ completed = 0
              /\ sinceAlive = FreshAges(cells)
              /\ saved = NoSaved
              /\ edits = 0
              /\ probe = NoProbe
              /\ vitalityCurve = <<>>
              /\ request = NoRequest
              /\ NlcaUnused

\* a reconfiguration between two steps.  A refused request is reported to
\* the caller at once, as an exception or as a result; LifeCanvas' $effect
\* ends at the exception, and after a result it goes on to reset() when the
\* rule it passed names another neighborhood.  An accepted resize loses the
\* grid, an accepted rule with another neighborhood is followed by reset().
Configure ==
    /\ phase = "idle"
    /\ edits < MaxEdits
    /\ \E r \in ConfigRequests, report \in {"exception", "result"} :
          IF ValidRequest(r.kind, r.value)
          THEN LET p == Reconfigured(params, r.kind, r.value)
               IN  /\ request' = [kind |-> r.kind, value |-> r.value,
                                  error |-> FALSE, at |-> generation]
                   /\ params' = p
                   /\ vitalityCurve' = IF r.kind = "vitality" THEN r.value
                                       ELSE vitalityCurve
                   /\ IF r.kind = "resize"
                      THEN /\ cellBuffers' = <<ZeroBuffer(p), ZeroBuffer(p)>>
                           /\ front' = 1
                           /\ sinceAlive' = FreshAges(ZeroBuffer(p))
                           /\ lastOp' = "resize"
                           /\ edits' = edits + 1
                      ELSE /\ front' = front
                           /\ IF p.neighborhood # params.neighborhood
                              THEN \E cells \in ConfigSeeds(p) :
                                      HostWrites(cells, "seed")
                              ELSE HostWrites(Front, "rule")
          ELSE /\ request' = [kind |-> r.kind, value |-> r.value,
                              error |-> TRUE, at |-> generation]
               /\ UNCHANGED <<params, vitalityCurve, front>>
               /\ IF /\ report = "result"
                     /\ r.kind = "rule"
                     /\ r.value.neighborhood \notin NeighborhoodTokens
                  THEN \E cells \in ConfigSeeds(params) :
                          HostWrites(cells, "seed")
                  ELSE /\ UNCHANGED <<cellBuffers, sinceAlive>>
                       /\ lastOp' = "refused"
                       /\ edits' = edits + 1
    /\ UNCHANGED <<nlcaVars, serviceVars, probe, generation, phase, pending, writeLog,
                   completed, saved>>

NextConfig == Configure \/ Step

SpecConfig == InitConfig /\ [][NextConfig]_vars

\* a request the error handling design calls a configuration error
IsConfigurationError(r) ==
    \/ r.kind = "resize" /\ (r.value[1] <= 0 \/ r.value[2] <= 0)
    \/ r.kind = "rule" /\ (r.value.numStates < 2 \/ r.value.numStates > 1024)
    \/ r.kind = "rule" /\ r.value.neighborhood \notin NeighborhoodTokens
    \/ r.kind = "boundary" /\ r.value \notin BoundaryTokens
    \/ r.kind = "vitality" /\ \E k \in 1 .. (Len(r.value) - 1) :
                                 r.value[k][1] >= r.value[k + 1][1]

\* C23: a reconfiguration that is a configuration error (a grid dimension
\* <= 0, numStates < 2 or > 1024, an unknown neighborhood or boundary token,
\* vitality anchors not strictly increasing in x) is reported in the same
\* call and changes neither the parameters nor the curve, and every later
\* step is the kernel's step under those parameters
C23_RejectedKeepsConfig ==
    [][/\ (request' # request /\ IsConfigurationError(request')) =>
              /\ request'.error
              /\ params' = params
              /\ vitalityCurve' = vitalityCurve
       /\ lastOp' = "step" =>
              /\ params' = params
              /\ cellBuffers'[front'] = NextGrid(params, Front)]_vars

\* a rule with numStates = 1025 was refused and a step was taken afterwards
C23_Witness ==
    /\ request.kind = "rule"
    /\ request.error
    /\ request.value.numStates = 1025
    /\ lastOp = "step"
    /\ request.at < generation
    /\ params.num_states = 3

--------------------------------------------------------------------------
(* CellAgent: one cell's conversation history (agentManager.ts).           *)

\* largest maxHistoryLength explored
MaxHistory == 4
\* addMessage calls explored on one agent
MaxCalls == 6

Roles == {"system", "user", "assistant"}

\* history.slice(-n): the last n messages; slice(-0) is slice(0), the whole
\* array
SliceLast(history, n) ==
    IF n = 0 \/ n >= Len(history) THEN history
    ELSE SubSeq(history, Len(history) - n + 1, Len(history))

\* CellAgent.addMessage(message): the history afterwards
addMessage(history, maxHistoryLength, message) ==
    LET pushed == Append(history, message)
    IN  IF Len(pushed) > maxHistoryLength
        THEN LET systemMsg == pushed[1]
                 recentMsgs == SliceLast(pushed, maxHistoryLength - 1)
             IN  IF systemMsg.role = "system"
                 THEN <<systemMsg>> \o recentMsgs
                 ELSE recentMsgs
        ELSE pushed

\* CellAgent.hasSystemPrompt()
hasSystemPrompt(history) == Len(history) > 0 /\ history[1].role = "system"

\* a CellAgent as constructed; `added` counts the addMessage calls on it
NewAgent == [history |-> <<>>, added |-> 0]

\* one agent, cell 0, with any maxHistoryLength from 1 on
InitAgent ==
    /\ KernelUnused
    /\ ServiceUnused
    /\ tape = NoTape
    /\ stepper = NoStepper
    /\ frameBuffer = NoFrameBuffer
    /\ \E m \in 1 .. MaxHistory :
          agentManager = [maxHistoryLength |-> m, agents |-> (0 :> NewAgent)]

\* agent.addMessage({role, content})
AddMessage ==
    /\ agentManager.agents[0].added < MaxCalls
    /\ \E role \in Roles :
          agentManager' =
              [agentManager EXCEPT
                  !.agents[0].history =
                      addMessage(@, agentManager.maxHistoryLength,
                                 [role |-> role,
                                  content |-> agentManager.agents[0].added]),
                  !.agents[0].added = @ + 1]
    /\ UNCHANGED <<kernelVars, serviceVars, tape, stepper, frameBuffer>>

\* agent.clearHistory()
ClearHistory ==
    /\ agentManager.agents[0].history # <<>>
    /\ agentManager' = [agentManager EXCEPT !.agents[0].history = <<>>]
    /\ UNCHANGED <<kernelVars, serviceVars, tape, stepper, frameBuffer>>

NextAgent == AddMessage \/ ClearHistory

SpecAgent == InitAgent /\ [][NextAgent]_vars

\* C26 as stated: for every maxHistoryLength >= 1, 1 and 2 included, and
\* every sequence of addMessage calls, the history is never longer than
\* maxHistoryLength after addMessage returns
C26_HistoryBoundedAsStated ==
    Len(agentManager.agents[0].history) <= agentManager.maxHistoryLength

\* C26 as the code has it: the bound holds for every maxHistoryLength >= 2
C26_HistoryBounded ==
    agentManager.maxHistoryLength >= 2 =>
        Len(agentManager.agents[0].history) <= agentManager.maxHistoryLength

\* a history with maxHistoryLength = 2 that was trimmed
C26_Witness ==
    /\ agentManager.maxHistoryLength = 2
    /\ agentManager.agents[0].added > 2
    /\ Len(agentManager.agents[0].history) = 2
    /\ agentManager.agents[0].history[1].role = "system"

--------------------------------------------------------------------------
(* One NLCA generation: NlcaStepper.step, the batches it hands to          *)
(* NlcaOrchestrator.decideCellsBatch, and the decide proxy behind fetch.   *)
(* Grids and maps keyed by cell id are functions on 0 .. n - 1.            *)

\* getOffsets(neighborhood)
getOffsets(neighborhood) ==
    CASE neighborhood = "vonNeumann" -> VonNeumannOffsets
      [] neighborhood = "extendedMoore" -> ExtendedOffsets
      [] OTHER -> MooreOffsets

\* getCell01(grid, x, y, width, height, boundary)
getCell01(grid, x, y, width, height, boundary) ==
    LET t == transformCoordinate(x, y, width, height, boundary)
    IN  IF t = <<>> THEN 0
        ELSE IF grid[t[1] + t[2] * width] = 0 THEN 0 ELSE 1

\* extractCellContext(prev, width, height, x, y, neighborhood, boundary)
extractCellContext(prev, width, height, x, y, neighborhood, boundary) ==
    LET offsets == getOffsets(neighborhood)
    IN  [id |-> x + y * width, x |-> x, y |-> y,
         self |-> getCell01(prev, x, y, width, height, boundary),
         neighbors |->
             [k \in 1 .. Len(offsets) |->
                 [dx |-> offsets[k][1], dy |-> offsets[k][2],
                  state |-> getCell01(prev, x + offsets[k][1],
                                      y + offsets[k][2], width, height,
                                      boundary)]]]

\* NlcaStepper.buildContexts(prev, width, height): one context per cell, in
\* the order of the cell ids
buildContexts(prev, width, height, cfg) ==
    [id \in 0 .. (width * height - 1) |->
        extractCellContext(prev, width, height, id % width, id \div width,
                           cfg.neighborhood, cfg.boundary)]

\* the decide proxy tries one cell's upstream call at most this many times
maxAttempts == 3

\* the proxy's loop for one cell, from attempt `attempt` on: `run` lists
\* what the upstream call does at each attempt ("ok", "429", "5xx", "4xx",
\* "throw"), `content` is the text of an ok answer
RECURSIVE proxyCell(_, _, _)
proxyCell(run, content, attempt) ==
    LET res == run[attempt]
    IN  IF res \in {"429", "5xx", "throw"} /\ attempt < maxAttempts
        THEN proxyCell(run, content, attempt + 1)
        ELSE IF res = "ok"
        THEN [found |-> TRUE, ok |-> TRUE, content |-> content,
              attempts |-> attempt]
        ELSE [found |-> TRUE, ok |-> FALSE, content |-> [form |-> "blank"],
              attempts |-> attempt]

\* byId.get(cellId) when the proxy's answer has no entry for the cell
MissingResult ==
    [found |-> FALSE, ok |-> FALSE, content |-> [form |-> "blank"],
     attempts |-> 0]

\* what the upstream calls of one cell can do
UpstreamRuns ==
    {<<"ok">>, <<"4xx">>, <<"429", "ok">>, <<"5xx", "throw", "5xx">>,
     <<"throw", "throw", "throw">>, <<"429", "429", "429">>}

\* answer texts: JSON with "state" 1, 0 or 2, JSON without a numeric state,
\* JSON that does not parse but names 1 only, 0 only, both or neither, and
\* the empty text
Contents ==
    {[form |-> "json", finite |-> TRUE, state |-> s] : s \in 0 .. 2}
    \cup {[form |-> "json", finite |-> FALSE, state |-> 0]}
    \cup {[form |-> "text", one |-> o, zero |-> z] : o, z \in BOOLEAN}
    \cup {[form |-> "blank"]}

\* parseCellResponse(text): [parsed, state]; parsed = FALSE stands for null
parseCellResponse(text) ==
    CASE text.form = "blank" -> [parsed |-> FALSE, state |-> 0]
      [] text.form = "json" ->
            IF ~text.finite THEN [parsed |-> FALSE, state |-> 0]
            ELSE [parsed |-> TRUE, state |-> IF text.state = 1 THEN 1 ELSE 0]
      [] text.form = "text" ->
            IF text.one /\ ~text.zero THEN [parsed |-> TRUE, state |-> 1]
            ELSE IF text.zero /\ ~text.one THEN [parsed |-> TRUE, state |-> 0]
            ELSE [parsed |-> FALSE, state |-> 0]

\* the decision that starts from a dead cell instead of the cell's own state
cellDecision_dead(self, proxyError, r) ==
    IF ~proxyError /\ r.ok /\ parseCellResponse(r.content).parsed
    THEN [state |-> parseCellResponse(r.content).state, success |-> TRUE]
    ELSE [state |-> 0, success |-> FALSE]

\* decideCellsBatch, per item: the decision from the proxy's result r for
\* the cell; `self` is req.self
cellDecision(self, proxyError, r) ==
    IF proxyError THEN [state |-> self, success |-> FALSE]
    ELSE IF r.found /\ r.ok
    THEN LET parsed == parseCellResponse(r.content)
         IN  IF parsed.parsed THEN [state |-> parsed.state, success |-> TRUE]
             ELSE [state |-> self, success |-> FALSE]
    ELSE [state |-> self, success |-> FALSE]

\* NLCA generations explored
MaxNlcaGen == 2

\* Math.max(1, Math.floor(batchSize || totalCells)); 0 stands for no
\* batchSize in the configuration
batchSizeOf(cfg, totalCells) ==
    IF cfg.batchSize = 0 THEN totalCells
    ELSE IF cfg.batchSize < 1 THEN 1 ELSE cfg.batchSize

\* cells.slice(start, Math.min(cells.length, start + batchSize)): its ids
ChunkOf(totalCells, start, batchSize) ==
    {id \in 0 .. (totalCells - 1) : id >= start /\ id < start + batchSize}

\* the chunk's contexts taken from the grid as decided so far
chunkContexts_streaming(st, chunk) ==
    [id \in chunk |->
        extractCellContext(st.workingGrid, st.width, st.height,
                           id % st.width, id \div st.width,
                           st.cfg.neighborhood, st.cfg.boundary)]

\* the chunk's contexts: a slice of the contexts built when step() began
chunkContexts(st, chunk) == [id \in chunk |-> st.contexts[id]]

SystemMessage(id) == [role |-> "system", content |-> id]
UserMessage(gen) == [role |-> "user", content |-> gen]
AssistantMessage(gen) == [role |-> "assistant", content |-> gen]

\* decideCellsBatch before its fetch, for one item: the system prompt if
\* the agent has none, then the user prompt
promptAgent(agent, maxHistoryLength, id, gen) ==
    LET primed == IF hasSystemPrompt(agent.history) THEN agent.history
                  ELSE addMessage(agent.history, maxHistoryLength,
                                  SystemMessage(id))
    IN  [history |-> addMessage(primed, maxHistoryLength, UserMessage(gen)),
         added |-> agent.added
                   + (IF hasSystemPrompt(agent.history) THEN 1 ELSE 2)]

\* decideCellsBatch after its fetch, for one item: the assistant message
answerAgent(agent, maxHistoryLength, gen) ==
    [history |-> addMessage(agent.history, maxHistoryLength,
                            AssistantMessage(gen)),
     added |-> agent.added + 1]

\* the loop body of decideCells up to the fetch of decideCellsBatch: the
\* next chunk's items are built and its agents prompted
SendBatch(st, am) ==
    LET total == st.width * st.height
        chunk == ChunkOf(total, st.start, batchSizeOf(st.cfg, total))
        cells == chunkContexts(st, chunk)
    IN  /\ stepper' =
              [st EXCEPT
                  !.phase = "awaiting",
                  !.chunk = chunk,
                  !.requests =
                      [id \in (DOMAIN st.requests) \cup chunk |->
                          IF id \in chunk
                          THEN [self |-> cells[id].self,
                                neighbors |-> cells[id].neighbors]
                          ELSE st.requests[id]],
                  !.asked = [id \in DOMAIN st.asked |->
                                IF id \in chunk THEN st.asked[id] + 1
                                ELSE st.asked[id]]]
        /\ agentManager' =
              [am EXCEPT
                  !.agents =
                      [id \in DOMAIN am.agents |->
                          IF id \in chunk
                          THEN promptAgent(am.agents[id], am.maxHistoryLength,
                                           id, st.generation)
                          ELSE am.agents[id]]]

\* CellAgentManager.reset(width, height): no agent is left
resetManager(am, width, height) ==
    [am EXCEPT !.width = width, !.height = height,
               !.agents = [id \in 0 .. (width * height - 1) |-> NewAgent]]

\* the grids of w * h cells in states 0 and 1
NlcaGrids(w, h) == [0 .. (w * h - 1) -> 0 .. 1]

\* a stepper and its agent manager as constructed, and the grid its caller
\* holds; the manager's dimensions need not be the grid's
InitNlca ==
    /\ KernelUnused
    /\ ServiceUnused
    /\ tape = NoTape
    /\ frameBuffer = NoFrameBuffer
    /\ \E size \in {<<2, 1>>},
          neighborhood \in {"moore", "vonNeumann"},
          boundary \in {"plane", "torus"},
          batchSize \in 0 .. 1,
          m \in 1 .. 3,
          dims \in {<<2, 1>>, <<1, 2>>} :
          \E grid \in NlcaGrids(size[1], size[2]) :
              /\ stepper =
                    [phase |-> "idle",
                     cfg |-> [neighborhood |-> neighborhood,
                              boundary |-> boundary, batchSize |-> batchSize],
                     width |-> size[1], height |-> size[2],
                     generation |-> 0, prev |-> <<>>, contexts |-> <<>>,
                     start |-> 0, chunk |-> {}, decisions |-> <<>>,
                     workingGrid |-> <<>>, results |-> <<>>, asked |-> <<>>,
                     requests |-> <<>>, next |-> grid, changed01 |-> <<>>]
              /\ agentManager =
                    [maxHistoryLength |-> m, width |-> dims[1],
                     height |-> dims[2],
                     agents |-> [id \in 0 .. (dims[1] * dims[2] - 1) |->
                                    NewAgent],
                     cleared |-> FALSE]

\* step(prev, width, height, generation) up to its first await: the
\* manager is reset if its dimensions differ, the contexts are built from
\* prev, and the first batch is sent
StepCall ==
    /\ stepper.phase = "idle"
    /\ stepper.generation < MaxNlcaGen
    /\ LET prev == stepper.next
           am == IF agentManager.width # stepper.width
                    \/ agentManager.height # stepper.height
                 THEN resetManager(agentManager, stepper.width, stepper.height)
                 ELSE agentManager
       IN  SendBatch([stepper EXCEPT
                         !.prev = prev,
                         !.contexts = buildContexts(prev, stepper.width,
                                          stepper.height, stepper.cfg),
                         !.start = 0,
                         !.decisions = <<>>,
                         !.workingGrid = prev,
                         !.results = <<>>,
                         !.asked = [id \in DOMAIN prev |-> 0],
                         !.requests = <<>>,
                         !.changed01 = <<>>],
                     am)
    /\ UNCHANGED <<kernelVars, serviceVars, tape, frameBuffer>>

\* what one cell's entry in the proxy's answer can be
CellResults ==
    {proxyCell(<<"ok">>, content, 1) : content \in Contents}
    \cup {proxyCell(run, [form |-> "json", finite |-> TRUE, state |-> 1], 1) :
             run \in UpstreamRuns}

\* what the fetch of one batch can come to: an error (network failure or a
\* response that is not ok), an answer without results, or one result per
\* cell
BatchAnswers(chunk) ==
    {[proxyError |-> TRUE, results |-> [id \in chunk |-> MissingResult]],
     [proxyError |-> FALSE, results |-> [id \in chunk |-> MissingResult]]}
    \cup {[proxyError |-> FALSE, results |-> rs] : rs \in [chunk -> CellResults]}

\* the stepper after the loop of step() over the decision map
Finished(st) ==
    LET self(i) == IF st.prev[i] = 0 THEN 0 ELSE 1
        next == [i \in DOMAIN st.prev |->
                    IF i \in DOMAIN st.decisions THEN st.decisions[i]
                    ELSE self(i)]
    IN  [st EXCEPT !.phase = "idle",
                   !.chunk = {},
                   !.next = next,
                   !.changed01 = [i \in DOMAIN st.prev |->
                                     IF next[i] # self(i) THEN 1 ELSE 0],
                   !.generation = st.generation + 1]

\* the fetch of the batch in flight returns: decideCellsBatch makes its
\* decisions and answers the agents, decideCells stores them, and either
\* the next batch is sent or step() finishes with the next grid
BatchReturn ==
    /\ stepper.phase = "awaiting"
    /\ \E answer \in BatchAnswers(stepper.chunk) :
          LET decided == [id \in stepper.chunk |->
                             cellDecision(stepper.requests[id].self,
                                          answer.proxyError,
                                          answer.results[id])]
              st == [stepper EXCEPT
                        !.decisions =
                            [id \in (DOMAIN stepper.decisions) \cup stepper.chunk |->
                                IF id \in stepper.chunk THEN decided[id].state
                                ELSE stepper.decisions[id]],
                        !.workingGrid =
                            [id \in DOMAIN stepper.workingGrid |->
                                IF id \in stepper.chunk THEN decided[id].state
                                ELSE stepper.workingGrid[id]],
                        !.results =
                            [id \in (DOMAIN stepper.results) \cup stepper.chunk |->
                                IF id \in stepper.chunk
                                THEN [proxyError |-> answer.proxyError,
                                      r |-> answer.results[id]]
                                ELSE stepper.results[id]],
                        !.start = stepper.start
                                  + batchSizeOf(stepper.cfg,
                                        stepper.width * stepper.height)]
              am == [agentManager EXCEPT
                        !.agents =
                            [id \in DOMAIN agentManager.agents |->
                                IF id \in stepper.chunk
                                THEN answerAgent(agentManager.agents[id],
                                         agentManager.maxHistoryLength,
                                         stepper.generation)
                                ELSE agentManager.agents[id]]]
          IN  IF st.start < st.width * st.height
              THEN SendBatch(st, am)
              ELSE stepper' = Finished(st) /\ agentManager' = am
    /\ UNCHANGED <<kernelVars, serviceVars, tape, frameBuffer>>

\* resetAgentSessions() / updateRunId(): clearAllHistory, at any time
ClearAllHistory ==
    /\ ~agentManager.cleared
    /\ agentManager' =
          [agentManager EXCEPT
              !.agents = [id \in DOMAIN agentManager.agents |->
                             [agentManager.agents[id] EXCEPT !.history = <<>>]],
              !.cleared = TRUE]
    /\ UNCHANGED <<kernelVars, serviceVars, tape, stepper, frameBuffer>>

NextNlca == StepCall \/ BatchReturn \/ ClearAllHistory

SpecNlca == InitNlca /\ [][NextNlca]_vars

\* a step has finished and its result is at hand
StepDone == stepper.phase = "idle" /\ stepper.generation > 0

\* the cell's decision failed: its batch's request failed, or its result is
\* missing or not ok, or its text did not parse
DecisionFailed(id) ==
    LET res == stepper.results[id]
    IN  \/ res.proxyError
        \/ ~res.r.found
        \/ ~res.r.ok
        \/ ~parseCellResponse(res.r.content).parsed

\* C24: in an NLCA step, a cell whose batch request failed, whose result is
\* missing or not ok, or whose response text cannot be parsed is decided to
\* its current state and is unchanged in the next grid
C24_FailedCellKeepsState ==
    StepDone =>
        \A id \in DOMAIN stepper.prev :
            DecisionFailed(id) =>
                /\ stepper.decisions[id] = stepper.prev[id]
                /\ stepper.next[id] = stepper.prev[id]
                /\ stepper.changed01[id] = 0

\* an alive cell whose answer did not parse stayed alive next to a cell that
\* died by its answer
C24_Witness ==
    /\ StepDone
    /\ \E id, other \in DOMAIN stepper.prev :
          /\ stepper.prev[id] = 1
          /\ ~stepper.results[id].proxyError
          /\ stepper.results[id].r.ok
          /\ ~parseCellResponse(stepper.results[id].r.content).parsed
          /\ stepper.next[id] = 1
          /\ stepper.prev[other] = 1
          /\ stepper.next[other] = 0

\* C25: every request of a step (own state and neighbor states) is computed
\* from the step's input grid only, whatever the batch size: no decision of
\* an earlier batch shows in a later request, and the input grid is left as
\* it was
C25_RequestsFromInputGrid ==
    [][stepper'.phase = "awaiting" =>
          /\ \A id \in DOMAIN stepper'.requests :
                LET context == extractCellContext(stepper'.prev,
                                   stepper'.width, stepper'.height,
                                   id % stepper'.width, id \div stepper'.width,
                                   stepper'.cfg.neighborhood,
                                   stepper'.cfg.boundary)
                IN  /\ stepper'.requests[id].self = context.self
                    /\ stepper'.requests[id].neighbors = context.neighbors
          /\ stepper.phase = "awaiting" => stepper'.prev = stepper.prev]_vars

\* the second batch of a step is in flight after the first batch changed
\* its cell, which is a neighbor of the second batch's cell
C25_Witness ==
    /\ stepper.phase = "awaiting"
    /\ stepper.chunk = {1}
    /\ stepper.cfg.boundary = "plane"
    /\ stepper.prev[0] = 1
    /\ stepper.workingGrid[0] = 0
    /\ \E k \in DOMAIN stepper.requests[1].neighbors :
          stepper.requests[1].neighbors[k].state = 1

\* the history starts with the cell's system prompt and holds no other
\* system message
SystemFirstOnly(id) ==
    LET history == agentManager.agents[id].history
    IN  /\ Len(history) > 0
        /\ history[1] = SystemMessage(id)
        /\ \A k \in 2 .. Len(history) : history[k].role # "system"

\* C27 as stated: after any decideCellsBatch calls with trimming, and until
\* clearHistory is called, the history of every agent that has been used
\* begins with its system prompt and holds no other system message
C27_SystemPromptFirstAsStated ==
    ~agentManager.cleared =>
        \A id \in DOMAIN agentManager.agents :
            agentManager.agents[id].added > 0 => SystemFirstOnly(id)

\* C27 as the code has it: the same for every maxHistoryLength >= 2
C27_SystemPromptFirst ==
    (~agentManager.cleared /\ agentManager.maxHistoryLength >= 2) =>
        \A id \in DOMAIN agentManager.agents :
            agentManager.agents[id].added > 0 => SystemFirstOnly(id)

\* with maxHistoryLength = 2 an agent's history was trimmed in its second
\* generation and starts with the system prompt
C27_Witness ==
    /\ ~agentManager.cleared
    /\ agentManager.maxHistoryLength = 2
    /\ stepper.generation = 2
    /\ \E id \in DOMAIN agentManager.agents :
          /\ agentManager.agents[id].added = 5
          /\ agentManager.agents[id].history =
                <<SystemMessage(id), AssistantMessage(1)>>

\* C28 as stated: the cells of a failed batch request are requested again,
\* in a smaller batch, before the generation's states are final
C28_FailedBatchRetriedAsStated ==
    StepDone =>
        \A id \in DOMAIN stepper.prev :
            stepper.results[id].proxyError => stepper.asked[id] >= 2

\* C28 as the code has it: every cell is in exactly one batch request of a
\* generation, failed or not; the proxy alone repeats a cell's own upstream
\* call, at most maxAttempts times
C28_EachCellAskedOnce ==
    StepDone =>
        \A id \in DOMAIN stepper.prev :
            /\ stepper.asked[id] = 1
            /\ stepper.results[id].r.attempts <= maxAttempts

\* a generation finished after a batch of two cells failed
C28_Witness ==
    /\ StepDone
    /\ stepper.cfg.batchSize = 0
    /\ \A id \in DOMAIN stepper.prev :
          /\ stepper.results[id].proxyError
          /\ stepper.asked[id] = 1
          /\ stepper.next[id] = stepper.prev[id]

--------------------------------------------------------------------------
(* NlcaFrameBuffer: frames computed ahead of playback (frameBuffer.ts).    *)
(* stepper.step is the step modelled above; here it is a call in flight    *)
(* that resolves to some grid of states 0 and 1.                           *)

\* targetBufferSize explored
TargetBuffer == 2
\* largest generation a frame is computed for
MaxFrameGen == 3
\* initialize / seekTo / clear calls explored
MaxResets == 3
\* failing stepper.step calls explored
MaxThrows == 1

\* lastGrid = null
NullGrid == <<>>

\* the grids of the buffer: one cell
BufferGrids == NlcaGrids(1, 1)

\* isBufferFull(), the mutation that lets one frame more in
isBufferFull_over(fb) == Len(fb.buffer) > fb.targetBufferSize

\* isBufferFull()
isBufferFull(fb) == Len(fb.buffer) >= fb.targetBufferSize

\* no stopComputing() call is being waited on
NoStop == [pending |-> FALSE, started |-> 0, reinit |-> FALSE, done |-> FALSE]

\* a frame buffer as constructed, with its config set.  Beside the fields of
\* the class: `flights` are the stepper.step calls awaited by loops of
\* startComputing, each with the generation it captured; `epoch` counts the
\* initialize / seekTo / clear calls, `lineage` is the epoch whose grid
\* lastGrid descends from, and every frame carries the lineage of the grid
\* it was computed from; `reset` is the last of those calls, with the
\* generation it was given and whether a step was in flight when it was
\* made; `stop` follows a stopComputing() made while a loop ran: pending
\* until that loop ends, the frame computations started meanwhile, whether
\* initialize() was called meanwhile, and done once the loop has ended;
\* `throws` counts the failed steps and `rejected` says that the last
\* startComputing() ended with the error
InitBuffer ==
    /\ KernelUnused
    /\ ServiceUnused
    /\ tape = NoTape
    /\ agentManager = NoManager
    /\ stepper = NoStepper
    /\ frameBuffer =
          [targetBufferSize |-> TargetBuffer, buffer |-> <<>>,
           isComputing |-> FALSE, computingGeneration |-> -1,
           shouldStop |-> FALSE, lastGrid |-> NullGrid,
           currentGeneration |-> 0,
           flights |-> <<>>,
           epoch |-> 0, lineage |-> 0,
           reset |-> [op |-> "none", generation |-> 0, inFlight |-> FALSE],
           stop |-> NoStop, throws |-> 0, rejected |-> FALSE]

\* the finally block of startComputing, the mutation that leaves
\* isComputing set
finallyBlock_skip(fb) ==
    [fb EXCEPT !.stop = [@ EXCEPT !.pending = FALSE, !.done = @ \/ fb.stop.pending]]

\* the finally block of startComputing
finallyBlock(fb) ==
    [fb EXCEPT !.isComputing = FALSE,
               !.computingGeneration = -1,
               !.stop = [@ EXCEPT !.pending = FALSE,
                                  !.done = @ \/ fb.stop.pending]]

\* computeNextFrame() up to its await, or the end of startComputing's loop
\* when the buffer is full or shouldStop is set (or the generations
\* explored are used up)
ComputeNext(fb) ==
    IF ~fb.shouldStop /\ ~isBufferFull(fb)
       /\ fb.currentGeneration < MaxFrameGen
    THEN [fb EXCEPT !.computingGeneration = fb.currentGeneration,
                    !.flights = Append(@, [generation |-> fb.currentGeneration,
                                           lineage |-> fb.lineage]),
                    !.stop.started = IF fb.stop.pending THEN @ + 1 ELSE @]
    ELSE finallyBlock(fb)

\* initialize(startGrid, startGeneration)
Initialize ==
    /\ frameBuffer.epoch < MaxResets
    /\ \E startGrid \in BufferGrids, startGeneration \in 0 .. 1 :
          frameBuffer' =
              [frameBuffer EXCEPT
                  !.lastGrid = startGrid,
                  !.currentGeneration = startGeneration,
                  !.buffer = <<>>,
                  !.shouldStop = FALSE,
                  !.epoch = @ + 1,
                  !.lineage = frameBuffer.epoch + 1,
                  !.reset = [op |-> "initialize",
                             generation |-> startGeneration,
                             inFlight |-> frameBuffer.flights # <<>>],
                  !.stop.reinit = @ \/ frameBuffer.stop.pending]
    /\ UNCHANGED <<kernelVars, serviceVars, tape, agentManager, stepper>>

\* the first line of startComputing(), the mutation that never returns early
alreadyComputing_never(fb) == FALSE

\* the first line of startComputing(): a loop is running
alreadyComputing(fb) == fb.isComputing

\* startComputing() up to its first await
StartComputing ==
    /\ ~alreadyComputing(frameBuffer)
    /\ frameBuffer.lastGrid # NullGrid
    /\ frameBuffer.currentGeneration < MaxFrameGen
    /\ frameBuffer' = ComputeNext([frameBuffer EXCEPT !.shouldStop = FALSE,
                                                     !.isComputing = TRUE,
                                                     !.rejected = FALSE,
                                                     !.stop.done = FALSE])
    /\ UNCHANGED <<kernelVars, serviceVars, tape, agentManager, stepper>>

\* a sequence without its k-th element
Without(s, k) == SubSeq(s, 1, k - 1) \o SubSeq(s, k + 1, Len(s))

\* a stepper.step call in flight resolves: computeNextFrame appends the
\* frame and moves lastGrid and currentGeneration on, and the loop of
\* startComputing goes round
FrameReturn ==
    \E k \in 1 .. Len(frameBuffer.flights), next \in BufferGrids :
        LET gen == frameBuffer.flights[k].generation
            frame == [generation |-> gen + 1, grid |-> next,
                      lineage |-> frameBuffer.flights[k].lineage]
            fb == [frameBuffer EXCEPT
                      !.buffer = Append(@, frame),
                      !.lastGrid = next,
                      !.currentGeneration = gen + 1,
                      !.lineage = frameBuffer.flights[k].lineage,
                      !.flights = Without(@, k)]
        IN  /\ frameBuffer' = ComputeNext(fb)
            /\ UNCHANGED <<kernelVars, serviceVars, tape, agentManager, stepper>>

\* a stepper.step call in flight throws: computeNextFrame rethrows,
\* startComputing's finally block runs and its caller gets the error
FrameThrows ==
    /\ frameBuffer.throws < MaxThrows
    /\ \E k \in 1 .. Len(frameBuffer.flights) :
          frameBuffer' =
              finallyBlock([frameBuffer EXCEPT !.flights = Without(@, k),
                                               !.throws = @ + 1,
                                               !.rejected = TRUE])
    /\ UNCHANGED <<kernelVars, serviceVars, tape, agentManager, stepper>>

\* stopComputing() on the buffer fb
stopComputing(fb) ==
    [fb EXCEPT !.shouldStop = TRUE,
               !.stop = IF fb.isComputing
                        THEN [pending |-> TRUE, started |-> 0,
                              reinit |-> FALSE, done |-> FALSE]
                        ELSE @]

\* stopComputing()
StopComputing ==
    /\ ~frameBuffer.shouldStop
    /\ frameBuffer' = stopComputing(frameBuffer)
    /\ UNCHANGED <<kernelVars, serviceVars, tape, agentManager, stepper>>

\* popNextFrame()
PopNextFrame ==
    /\ frameBuffer.buffer # <<>>
    /\ frameBuffer' = [frameBuffer EXCEPT !.buffer = Tail(@)]
    /\ UNCHANGED <<kernelVars, serviceVars, tape, agentManager, stepper>>

\* clear()
Clear ==
    /\ frameBuffer.epoch < MaxResets
    /\ frameBuffer' =
          [stopComputing(frameBuffer) EXCEPT
              !.buffer = <<>>,
              !.lastGrid = NullGrid,
              !.currentGeneration = 0,
              !.epoch = @ + 1,
              !.lineage = frameBuffer.epoch + 1,
              !.reset = [op |-> "clear", generation |-> 0,
                         inFlight |-> frameBuffer.flights # <<>>]]
    /\ UNCHANGED <<kernelVars, serviceVars, tape, agentManager, stepper>>

\* seekTo's filter, the mutation that keeps every frame
KeepUpTo_all(buffer, g) == buffer

\* the buffer's frames of generations up to g
RECURSIVE KeepUpTo(_, _)
KeepUpTo(buffer, g) ==
    IF buffer = <<>> THEN <<>>
    ELSE IF Head(buffer).generation <= g
    THEN <<Head(buffer)>> \o KeepUpTo(Tail(buffer), g)
    ELSE KeepUpTo(Tail(buffer), g)

\* seekTo(generation, grid)
SeekTo ==
    /\ frameBuffer.epoch < MaxResets
    /\ \E g \in 0 .. 2, grid \in BufferGrids :
          frameBuffer' =
              [frameBuffer EXCEPT
                  !.buffer = KeepUpTo(@, g),
                  !.lastGrid = grid,
                  !.currentGeneration = g,
                  !.epoch = @ + 1,
                  !.lineage = frameBuffer.epoch + 1,
                  !.reset = [op |-> "seekTo", generation |-> g,
                             inFlight |-> frameBuffer.flights # <<>>]]
    /\ UNCHANGED <<kernelVars, serviceVars, tape, agentManager, stepper>>

NextBuffer ==
    \/ Initialize
    \/ StartComputing
    \/ FrameReturn
    \/ FrameThrows
    \/ StopComputing
    \/ PopNextFrame
    \/ Clear
    \/ SeekTo

SpecBuffer == InitBuffer /\ [][NextBuffer]_vars

\* the buffer is as clear() leaves it
IsCleared ==
    /\ frameBuffer.buffer = <<>>
    /\ frameBuffer.lastGrid = NullGrid
    /\ frameBuffer.currentGeneration = 0

\* C29 as stated: after clear() the buffer is empty, lastGrid is null and
\* currentGeneration is 0 until the next initialize or seekTo, also when
\* clear() was called with a frame computation in flight
C29_ClearedStaysClearedAsStated ==
    frameBuffer.reset.op = "clear" => IsCleared

\* C29 as the code has it: the same, when no frame computation was in
\* flight at the clear()
C29_ClearedStaysCleared ==
    (frameBuffer.reset.op = "clear" /\ ~frameBuffer.reset.inFlight) => IsCleared

\* clear() was called on a buffer holding a frame, with no computation in
\* flight
C29_Witness ==
    /\ frameBuffer.reset.op = "clear"
    /\ ~frameBuffer.reset.inFlight
    /\ ~frameBuffer.isComputing
    /\ frameBuffer.epoch = 2
    /\ IsCleared

\* the frames past the generation of the last seekTo come from its grid
SeekRespected ==
    \A k \in 1 .. Len(frameBuffer.buffer) :
        frameBuffer.buffer[k].generation > frameBuffer.reset.generation =>
            frameBuffer.buffer[k].lineage = frameBuffer.epoch

\* C30 as stated: after seekTo(g, grid) every frame of a generation > g in
\* the buffer, then or later, was computed after the seek from the grid
\* supplied, also when a frame computation was in flight at the seek
C30_SeekDropsOldFramesAsStated ==
    frameBuffer.reset.op = "seekTo" => SeekRespected

\* C30 as the code has it: the same, when no frame computation was in
\* flight at the seekTo
C30_SeekDropsOldFrames ==
    (frameBuffer.reset.op = "seekTo" /\ ~frameBuffer.reset.inFlight) =>
        /\ SeekRespected
        /\ frameBuffer.lineage = frameBuffer.epoch

\* after a seek back to generation 0 of a buffer once initialized, with no
\* computation in flight, a frame of generation 1 was computed anew
C30_Witness ==
    /\ frameBuffer.reset.op = "seekTo"
    /\ ~frameBuffer.reset.inFlight
    /\ frameBuffer.reset.generation = 0
    /\ frameBuffer.epoch = 2
    /\ Len(frameBuffer.buffer) = 1
    /\ frameBuffer.buffer[1].generation = 1
    /\ frameBuffer.buffer[1].lineage = 2

\* C31 as stated: after a stopComputing() made while the loop of
\* startComputing runs, the loop starts no further frame computation: it
\* appends at most the frame in flight and ends, whatever initialize,
\* seekTo or startComputing calls are made meanwhile
C31_StopEndsLoopAsStated ==
    frameBuffer.stop.pending => frameBuffer.stop.started = 0

\* C31 as the code has it: the same, as long as initialize() is not called
\* before the loop has ended
C31_StopEndsLoop ==
    (frameBuffer.stop.pending /\ ~frameBuffer.stop.reinit) =>
        /\ frameBuffer.stop.started = 0
        /\ frameBuffer.shouldStop

\* stopComputing() was called with a step in flight, the frame landed and
\* the loop ended without another computation
C31_Witness ==
    /\ frameBuffer.stop.done
    /\ ~frameBuffer.stop.reinit
    /\ frameBuffer.throws = 0
    /\ ~frameBuffer.isComputing
    /\ frameBuffer.flights = <<>>
    /\ frameBuffer.shouldStop
    /\ Len(frameBuffer.buffer) = 1

\* C34: at most one stepper.step call is in flight at any time
C34_OneStepInFlight ==
    /\ Len(frameBuffer.flights) <= 1
    /\ frameBuffer.flights # <<>> => frameBuffer.isComputing

\* initialize or seekTo was called with a step in flight: the loop is still
\* running, so that a startComputing() made now returns at once
C34_Witness ==
    /\ Len(frameBuffer.flights) = 1
    /\ frameBuffer.isComputing
    /\ frameBuffer.lastGrid # NullGrid
    /\ frameBuffer.currentGeneration < MaxFrameGen
    /\ frameBuffer.reset.inFlight

\* C35: the buffer never holds more than targetBufferSize frames
C35_BufferWithinTarget ==
    Len(frameBuffer.buffer) <= frameBuffer.targetBufferSize

\* the buffer is full and the loop has ended
C35_Witness ==
    /\ Len(frameBuffer.buffer) = frameBuffer.targetBufferSize
    /\ ~frameBuffer.isComputing
    /\ ~frameBuffer.shouldStop

\* C36: the frames of the buffer are in strictly increasing order of
\* generation, front to back
C36_FramesIncreasing ==
    \A k \in 1 .. Len(frameBuffer.buffer) - 1 :
        frameBuffer.buffer[k].generation < frameBuffer.buffer[k + 1].generation

\* two frames computed from different grids follow each other: one kept
\* by a seekTo, one computed after it
C36_Witness ==
    /\ Len(frameBuffer.buffer) = 2
    /\ frameBuffer.buffer[1].lineage # frameBuffer.buffer[2].lineage
    /\ frameBuffer.reset.op = "seekTo"

\* a step in which a stepper.step call fails
StepFails == frameBuffer'.throws = frameBuffer.throws + 1

\* C37: when stepper.step fails no frame is appended, lastGrid and
\* currentGeneration stay as they are, isComputing is false again and the
\* caller of startComputing gets the error
C37_FailedStepLeavesState ==
    [][StepFails =>
          /\ frameBuffer'.buffer = frameBuffer.buffer
          /\ frameBuffer'.lastGrid = frameBuffer.lastGrid
          /\ frameBuffer'.currentGeneration = frameBuffer.currentGeneration
          /\ ~frameBuffer'.isComputing
          /\ frameBuffer'.rejected
          /\ frameBuffer'.flights = <<>>]_vars

\* after a failed step startComputing() was called again and computes
C37_Witness ==
    /\ frameBuffer.throws = 1
    /\ ~frameBuffer.rejected
    /\ frameBuffer.isComputing
    /\ Len(frameBuffer.flights) = 1

--------------------------------------------------------------------------
(* NlcaOrchestrator's adaptive concurrency (orchestrator.ts).  The         *)
(* concurrency values are JavaScript numbers and need not be whole: the    *)
(* model keeps every such number in halves, so that 2 stands for 1, 5 for  *)
(* 2.5 and 8 for 4.                                                        *)

\* items sent through decideCellsBatch, in all
MaxBatchCalls == 4

\* the whole number n, in halves
Whole(n) == 2 * n

\* x is a whole number
IsWhole(x) == x % 2 = 0

\* Math.floor(x)
Floor(x) == 2 * (x \div 2)

\* Math.max(a, b) and Math.min(a, b)
MathMax(a, b) == IF a >= b THEN a ELSE b
MathMin(a, b) == IF a <= b THEN a ELSE b

\* Math.max(1, Math.floor(x * 0.5)) and Math.max(1, Math.floor(x * 0.8))
BackOffHalf(x) == MathMax(Whole(1), Whole(x \div 4))
BackOffFifth(x) == MathMax(Whole(1), Whole((4 * x) \div 10))

\* the values of maxConcurrency explored: 0, 0.5, 1, 1.5, 2, 2.5 and 4
ConcurrencyInputs == {0, 1, 2, 3, 4, 5, 8}

\* const target = Math.max(1, Math.floor(this.cfg.maxConcurrency))
targetConcurrency(o) == MathMax(Whole(1), Floor(o.cfg.maxConcurrency))

\* new NlcaOrchestrator(cfg)
InitOrchestrator ==
    /\ KernelUnused
    /\ tape = NoTape
    /\ agentManager = NoManager
    /\ stepper = NoStepper
    /\ frameBuffer = NoFrameBuffer
    /\ decide = NoDecide
    /\ color = NoColor
    /\ \E maxConcurrency \in ConcurrencyInputs :
          orchestrator =
              [cfg |-> [maxConcurrency |-> maxConcurrency],
               effectiveConcurrency |-> MathMax(Whole(1), maxConcurrency),
               callCount |-> 0,
               last |-> "constructor"]

\* updateConfig(partial), with or without a maxConcurrency in partial
UpdateConfig ==
    /\ \E has \in BOOLEAN, maxConcurrency \in ConcurrencyInputs :
          orchestrator' =
              IF has
              THEN [orchestrator EXCEPT
                       !.cfg.maxConcurrency = maxConcurrency,
                       !.effectiveConcurrency =
                           MathMax(Whole(1), Floor(maxConcurrency)),
                       !.last = "updateConfig"]
              ELSE [orchestrator EXCEPT !.last = "updateConfig"]
    /\ UNCHANGED <<kernelVars, nlcaVars, decide, color>>

\* decideCellsBatch(items) with its answer from the proxy: none that is ok
\* (proxyError), or the stats of an answer
DecideCellsBatch ==
    /\ \E items \in 1 .. 2, ok \in BOOLEAN, rateLimited \in 0 .. 1,
          errors \in 0 .. 1 :
          /\ orchestrator.callCount + items <= MaxBatchCalls
          /\ LET o == [orchestrator EXCEPT !.callCount = @ + items]
                 target == targetConcurrency(o)
             IN  orchestrator' =
                     IF ~ok THEN [o EXCEPT !.last = "failed"]
                     ELSE IF rateLimited > 0
                     THEN [o EXCEPT !.effectiveConcurrency = BackOffHalf(@),
                                    !.last = "rateLimited"]
                     ELSE IF errors > 0
                     THEN [o EXCEPT !.effectiveConcurrency = BackOffFifth(@),
                                    !.last = "errors"]
                     ELSE IF o.effectiveConcurrency < target
                     THEN [o EXCEPT !.effectiveConcurrency =
                                        MathMin(target, @ + Whole(1)),
                                    !.last = "clean"]
                     ELSE [o EXCEPT !.last = "clean"]
    /\ UNCHANGED <<kernelVars, nlcaVars, decide, color>>

NextOrchestrator == UpdateConfig \/ DecideCellsBatch

SpecOrchestrator == InitOrchestrator /\ [][NextOrchestrator]_vars

\* C38 as stated: 1 <= effectiveConcurrency <=
\* max(1, floor(cfg.maxConcurrency)) after construction and after every
\* updateConfig and decideCellsBatch
C38_ConcurrencyWithinTargetAsStated ==
    /\ Whole(1) <= orchestrator.effectiveConcurrency
    /\ orchestrator.effectiveConcurrency <= targetConcurrency(orchestrator)

\* C38 as the code has it: effectiveConcurrency is at least 1 and at most
\* max(1, cfg.maxConcurrency), and within max(1, floor(cfg.maxConcurrency))
\* whenever it is a whole number
C38_ConcurrencyWithinTarget ==
    /\ Whole(1) <= orchestrator.effectiveConcurrency
    /\ orchestrator.effectiveConcurrency
           <= MathMax(Whole(1), orchestrator.cfg.maxConcurrency)
    /\ IsWhole(orchestrator.effectiveConcurrency) =>
           orchestrator.effectiveConcurrency <= targetConcurrency(orchestrator)

\* a clean answer has brought the concurrency back up to its target of 4
\* after a back-off
C38_Witness ==
    /\ orchestrator.last = "clean"
    /\ orchestrator.callCount >= 3
    /\ orchestrator.cfg.maxConcurrency = Whole(4)
    /\ orchestrator.effectiveConcurrency = Whole(3)

--------------------------------------------------------------------------
(* packCellColorHexToU32: a cell's colour packed for the render pipeline   *)
(* (MainAppNlca.svelte).  A string is a sequence of its characters.        *)

\* the digits a colour string is drawn from: three hex digits and one
\* letter that is none
ColorDigits == {"0", "a", "F", "G"}

\* the value of a hex digit, as Number.parseInt(_, 16) reads it
HexDigitValue(ch) ==
    CASE ch = "0" -> 0 [] ch = "1" -> 1 [] ch = "2" -> 2 [] ch = "3" -> 3
      [] ch = "4" -> 4 [] ch = "5" -> 5 [] ch = "6" -> 6 [] ch = "7" -> 7
      [] ch = "8" -> 8 [] ch = "9" -> 9
      [] ch \in {"a", "A"} -> 10 [] ch \in {"b", "B"} -> 11
      [] ch \in {"c", "C"} -> 12 [] ch \in {"d", "D"} -> 13
      [] ch \in {"e", "E"} -> 14 [] ch \in {"f", "F"} -> 15

\* [0-9a-fA-F]
IsHexDigit(ch) ==
    ch \in {"0", "1", "2", "3", "4", "5", "6", "7", "8", "9",
            "a", "b", "c", "d", "e", "f", "A", "B", "C", "D", "E", "F"}

\* String.prototype.trim, for the blank as the only white space
RECURSIVE TrimLeft(_)
TrimLeft(s) ==
    IF s # <<>> /\ Head(s) = " " THEN TrimLeft(Tail(s)) ELSE s

RECURSIVE TrimRight(_)
TrimRight(s) ==
    IF s # <<>> /\ s[Len(s)] = " "
    THEN TrimRight(SubSeq(s, 1, Len(s) - 1)) ELSE s

Trim(s) == TrimRight(TrimLeft(s))

\* toUpperCase of one character
UpperChar(ch) ==
    CASE ch = "a" -> "A" [] ch = "b" -> "B" [] ch = "c" -> "C"
      [] ch = "d" -> "D" [] ch = "e" -> "E" [] ch = "f" -> "F"
      [] OTHER -> ch

\* /^#[0-9a-fA-F]{6}$/.test(s)
MatchesHexColor(s) ==
    /\ Len(s) = 7
    /\ s[1] = "#"
    /\ \A k \in 2 .. 7 : IsHexDigit(s[k])

\* normalizeHexColor(input): the upper-case string, or null
normalizeHexColor(input) ==
    LET s == Trim(input)
    IN  IF ~MatchesHexColor(s) THEN [null |-> TRUE, chars |-> <<>>]
        ELSE [null |-> FALSE, chars |-> [k \in 1 .. 7 |-> UpperChar(s[k])]]

\* Number.parseInt(normalized.slice(from, from + 2), 16) & 0xff, `from`
\* counted from 1
ParseByte(chars, from) ==
    (16 * HexDigitValue(chars[from]) + HexDigitValue(chars[from + 1])) % 256

\* colorStatus === 'valid' ? 1 : colorStatus === 'invalid' ? 2 : 0
statusBitsOf(colorStatus) ==
    IF colorStatus = "valid" THEN 1
    ELSE IF colorStatus = "invalid" THEN 2 ELSE 0

\* packCellColorHexToU32(colorHex, colorStatus): colorHex is
\* [type, chars] with type "string", "null" or "undefined".  The fields
\* packed do not overlap, so the bitwise or is their sum, and the sum is
\* below 2^26, so the closing >>> 0 leaves it as it is
packCellColorHexToU32(colorHex, colorStatus) ==
    LET status0 == statusBitsOf(colorStatus)
        parse == status0 = 1 /\ colorHex.type = "string"
        normalized == normalizeHexColor(colorHex.chars)
        statusBits == IF parse /\ normalized.null THEN 2 ELSE status0
        hit == parse /\ ~normalized.null
        r == IF hit THEN ParseByte(normalized.chars, 2) ELSE 0
        g == IF hit THEN ParseByte(normalized.chars, 4) ELSE 0
        b == IF hit THEN ParseByte(normalized.chars, 6) ELSE 0
    IN  (statusBits % 4) * 16777216 + r * 65536 + g * 256 + b

\* the colours explored: null, undefined, "#" and six digits, and strings
\* that are short, long, padded or lack the "#"
ColorInputs ==
    {[type |-> "null", chars |-> <<>>], [type |-> "undefined", chars |-> <<>>]}
    \cup {[type |-> "string", chars |-> <<"#">> \o d] :
             d \in [1 .. 6 -> ColorDigits]}
    \cup {[type |-> "string", chars |-> s] :
             s \in {<<>>, <<"#", "a", "F", "0">>, <<"a", "F", "0", "a", "F", "0">>,
                    <<" ", "#", "a", "F", "0", "a", "F", "0", " ">>,
                    <<"#", "a", "F", "0", "a", "F", "0", "a", "F">>}}

\* a colour and its status as a cell decision carries them
InitColor ==
    /\ KernelUnused
    /\ tape = NoTape
    /\ agentManager = NoManager
    /\ stepper = NoStepper
    /\ frameBuffer = NoFrameBuffer
    /\ orchestrator = NoOrchestrator
    /\ decide = NoDecide
    /\ \E colorHex \in ColorInputs,
          colorStatus \in {"valid", "invalid", "missing", "undefined"} :
          color = [phase |-> "decided", colorHex |-> colorHex,
                   colorStatus |-> colorStatus, packed |-> 0]

\* the colour is packed
PackColor ==
    /\ color.phase = "decided"
    /\ color' = [color EXCEPT
                    !.phase = "packed",
                    !.packed = packCellColorHexToU32(color.colorHex,
                                                     color.colorStatus)]
    /\ UNCHANGED <<kernelVars, nlcaVars, orchestrator, decide>>

NextColor == PackColor

SpecColor == InitColor /\ [][NextColor]_vars

\* bits 24-25 and bits 0-23 of a packed value
PackedStatus(u) == (u \div 16777216) % 4
PackedRGB(u) == u % 16777216

\* colorHex is a well-formed #RRGGBB string
WellFormedColor(colorHex) ==
    colorHex.type = "string" /\ MatchesHexColor(Trim(colorHex.chars))

\* the layout: nothing above bit 25, status 'missing' or 'invalid' with
\* zero RGB bits, and a well-formed valid colour with status 1 and its
\* three bytes
PackedLayout ==
    /\ color.packed < 67108864
    /\ color.colorStatus = "invalid" =>
           PackedStatus(color.packed) = 2 /\ PackedRGB(color.packed) = 0
    /\ color.colorStatus \in {"missing", "undefined"} => color.packed = 0
    /\ (color.colorStatus = "valid" /\ WellFormedColor(color.colorHex)) =>
           LET s == Trim(color.colorHex.chars)
           IN  /\ PackedStatus(color.packed) = 1
               /\ PackedRGB(color.packed) =
                      65536 * (16 * HexDigitValue(s[2]) + HexDigitValue(s[3]))
                      + 256 * (16 * HexDigitValue(s[4]) + HexDigitValue(s[5]))
                      + 16 * HexDigitValue(s[6]) + HexDigitValue(s[7])

\* C33 as stated: status in bits 24-25 and RGB in bits 0-23; a 'valid'
\* colour whose colorHex is malformed, null or undefined packs to status 2
\* with zero RGB bits; 'missing' and 'invalid' pack zero RGB bits
C33_PackedColorAsStated ==
    color.phase = "packed" =>
        /\ PackedLayout
        /\ (color.colorStatus = "valid" /\ ~WellFormedColor(color.colorHex)) =>
               PackedStatus(color.packed) = 2 /\ PackedRGB(color.packed) = 0

\* C33 as the code has it: a 'valid' colour packs to status 2 when colorHex
\* is a malformed string, and to status 1 (valid, black) when colorHex is
\* null or undefined
C33_PackedColor ==
    color.phase = "packed" =>
        /\ PackedLayout
        /\ (color.colorStatus = "valid" /\ ~WellFormedColor(color.colorHex)) =>
               /\ PackedRGB(color.packed) = 0
               /\ PackedStatus(color.packed) =
                      IF color.colorHex.type = "string" THEN 2 ELSE 1

\* a 'valid' colour with a malformed string was packed as invalid
C33_Witness ==
    /\ color.phase = "packed"
    /\ color.colorStatus = "valid"
    /\ color.colorHex.type = "string"
    /\ color.colorHex.chars = <<"#", "G", "G", "G", "G", "G", "G">>
    /\ color.packed = 33554432

--------------------------------------------------------------------------
(* The /api/nlca/decide endpoint (routes/api/nlca/decide/+server.ts): one  *)
(* request, its pool of workers and the upstream calls of its cells.       *)
(* maxConcurrency is kept in halves like the orchestrator's numbers.       *)
(* Cells, results and counters are indexed from 0, workers from 1.         *)

\* cells of a request
MaxDecideCells == 2

\* the maxConcurrency used when the payload has none
DefaultConcurrency == 50

\* no result stored yet (an empty slot of `results`)
NoResult == [cellId |-> -1, ok |-> FALSE, status |-> -1]

\* what an upstream call can do: answer 200 with JSON, answer 200 with a
\* body that does not parse, answer 429, 5xx or another status that is not
\* ok, or throw (a network error, or the abort of the timeout)
UpstreamOutcomes == {"ok", "badjson", "429", "5xx", "4xx", "throw"}

\* attempt < maxAttempts, the mutation that allows one attempt more
mayRetry_inclusive(attempt) == attempt <= maxAttempts

\* attempt < maxAttempts
mayRetry(attempt) == attempt < maxAttempts

\* new Array(Math.max(1, concurrency)) throws a RangeError unless the
\* length is a whole number
IsArrayLength(x) == IsWhole(x) /\ x >= 0

\* the number of workers of the pool, the mutation with one more
workerCount_more(concurrency) == MathMax(Whole(1), concurrency) \div 2 + 1

\* the number of workers of the pool: Math.max(1, concurrency)
workerCount(concurrency) == MathMax(Whole(1), concurrency) \div 2

\* the top of a worker's loop: it takes the next index and, if there is an
\* item left, calls fn, which runs up to its first upstream call or returns
\* at once for a cell without messages
TakeNext(d, k) ==
    LET i == d.nextIndex
        d1 == [d EXCEPT !.nextIndex = i + 1]
    IN  IF i >= d.length
        THEN [d1 EXCEPT !.workers[k] = [item |-> -1, attempt |-> 0,
                                        stage |-> "done", result |-> NoResult]]
        ELSE IF d.cells[i] = "nomessages"
        THEN [d1 EXCEPT !.invoked[i] = @ + 1,
                        !.workers[k] =
                            [item |-> i, attempt |-> 0, stage |-> "returned",
                             result |-> [cellId |-> i, ok |-> FALSE,
                                         status |-> 0]]]
        ELSE [d1 EXCEPT !.invoked[i] = @ + 1,
                        !.upstream[i] = @ + 1,
                        !.workers[k] = [item |-> i, attempt |-> 1,
                                        stage |-> "call", result |-> NoResult]]

\* the workers from k on start, one after the other
RECURSIVE StartWorkers(_, _)
StartWorkers(d, k) ==
    IF k > Len(d.workers) THEN d ELSE StartWorkers(TakeNext(d, k), k + 1)

\* const maxConcurrency = ... ? Math.max(1, payload.maxConcurrency) : 50
maxConcurrencyOf(payload) ==
    IF payload.has THEN MathMax(Whole(1), payload.maxConcurrency)
    ELSE Whole(DefaultConcurrency)

\* POST up to the first await inside asyncPool
Serve(payload, cells, length) ==
    LET concurrency == maxConcurrencyOf(payload)
        d == [phase |-> "serving", payload |-> payload, cells |-> cells,
              length |-> length, nextIndex |-> 0,
              results |-> [i \in 0 .. length - 1 |-> NoResult],
              invoked |-> [i \in 0 .. length - 1 |-> 0],
              upstream |-> [i \in 0 .. length - 1 |-> 0],
              settled |-> [i \in 0 .. length - 1 |-> 0],
              workers |-> <<>>,
              stats |-> [total |-> 0, ok |-> 0, errors |-> 0,
                         rateLimited |-> 0]]
    IN  IF ~IsArrayLength(concurrency) THEN [d EXCEPT !.phase = "threw"]
        ELSE StartWorkers(
                 [d EXCEPT !.workers =
                      [k \in 1 .. workerCount(concurrency) |->
                          [item |-> -1, attempt |-> 0, stage |-> "new",
                           result |-> NoResult]]], 1)

\* the maxConcurrency of a payload: none, 0, 1, 1.5, 2, 2.5 or 3
DecidePayloads ==
    {[has |-> FALSE, maxConcurrency |-> 0]}
    \cup {[has |-> TRUE, maxConcurrency |-> x] : x \in {0, 2, 3, 4, 5, 6}}

\* a request with one to MaxDecideCells cells has arrived
InitDecide ==
    /\ KernelUnused
    /\ tape = NoTape
    /\ agentManager = NoManager
    /\ stepper = NoStepper
    /\ frameBuffer = NoFrameBuffer
    /\ orchestrator = NoOrchestrator
    /\ color = NoColor
    /\ \E payload \in DecidePayloads, length \in 1 .. MaxDecideCells :
          \E cells \in [0 .. length - 1 -> {"cell", "nomessages"}] :
              decide = Serve(payload, cells, length)

\* the upstream calls in flight
InFlight(d) == {k \in 1 .. Len(d.workers) : d.workers[k].stage = "call"}

\* the upstream call of worker k ends
UpstreamResponds ==
    /\ decide.phase = "serving"
    /\ \E k \in InFlight(decide), outcome \in UpstreamOutcomes :
          LET w == decide.workers[k]
              retried == outcome \in {"429", "5xx", "badjson", "throw"}
                         /\ mayRetry(w.attempt)
              result ==
                  CASE outcome = "ok" ->
                           [cellId |-> w.item, ok |-> TRUE, status |-> 0]
                    [] outcome = "429" ->
                           [cellId |-> w.item, ok |-> FALSE, status |-> 429]
                    [] outcome = "5xx" ->
                           [cellId |-> w.item, ok |-> FALSE, status |-> 500]
                    [] outcome = "4xx" ->
                           [cellId |-> w.item, ok |-> FALSE, status |-> 400]
                    [] OTHER ->
                           [cellId |-> w.item, ok |-> FALSE, status |-> 0]
          IN  decide' =
                  IF retried
                  THEN [decide EXCEPT !.workers[k].stage = "sleep"]
                  ELSE [decide EXCEPT !.workers[k].stage = "returned",
                                      !.workers[k].result = result]
    /\ UNCHANGED <<kernelVars, nlcaVars, orchestrator, color>>

\* the sleep before a retry ends and the next attempt is sent
SleepEnds ==
    /\ decide.phase = "serving"
    /\ \E k \in 1 .. Len(decide.workers) :
          /\ decide.workers[k].stage = "sleep"
          /\ decide' =
                 [decide EXCEPT
                     !.workers[k].attempt = @ + 1,
                     !.workers[k].stage = "call",
                     !.upstream[decide.workers[k].item] = @ + 1]
    /\ UNCHANGED <<kernelVars, nlcaVars, orchestrator, color>>

\* fn has returned: the worker stores the result and goes round its loop
WorkerResumes ==
    /\ decide.phase = "serving"
    /\ \E k \in 1 .. Len(decide.workers) :
          /\ decide.workers[k].stage = "returned"
          /\ LET w == decide.workers[k]
             IN  decide' =
                     TakeNext([decide EXCEPT !.results[w.item] = w.result,
                                             !.settled[w.item] = @ + 1], k)
    /\ UNCHANGED <<kernelVars, nlcaVars, orchestrator, color>>

\* every worker has returned: asyncPool resolves and POST answers with the
\* results and their stats
Respond ==
    /\ decide.phase = "serving"
    /\ \A k \in 1 .. Len(decide.workers) : decide.workers[k].stage = "done"
    /\ LET items == 0 .. decide.length - 1
           okCount == Cardinality({i \in items : decide.results[i].ok})
           errorCount == Cardinality({i \in items : ~decide.results[i].ok})
           rateLimitedCount ==
               Cardinality({i \in items : /\ ~decide.results[i].ok
                                          /\ decide.results[i].status = 429})
       IN  decide' =
               [decide EXCEPT
                   !.phase = "responded",
                   !.stats = [total |-> decide.length, ok |-> okCount,
                              errors |-> errorCount,
                              rateLimited |-> rateLimitedCount]]
    /\ UNCHANGED <<kernelVars, nlcaVars, orchestrator, color>>

NextDecide ==
    \/ UpstreamResponds
    \/ SleepEnds
    \/ WorkerResumes
    \/ Respond

SpecDecide == InitDecide /\ [][NextDecide]_vars

\* every call and every timer ends, and a resumed worker gets to run
SpecDecideLive == SpecDecide /\ WF_vars(NextDecide)

\* C32: while a request is served, never more than max(1, maxConcurrency)
\* upstream calls are in flight, retries included (50 when the payload
\* names no maxConcurrency)
C32_UpstreamWithinConcurrency ==
    Whole(Cardinality(InFlight(decide)))
        <= (IF decide.payload.has
            THEN MathMax(Whole(1), decide.payload.maxConcurrency)
            ELSE Whole(DefaultConcurrency))

\* with maxConcurrency 1 the one call in flight is a retry, while the
\* second cell waits for the worker
C32_Witness ==
    /\ decide.phase = "serving"
    /\ decide.payload = [has |-> TRUE, maxConcurrency |-> Whole(1)]
    /\ decide.length = 2
    /\ Cardinality(InFlight(decide)) = 1
    /\ \E k \in InFlight(decide) : decide.workers[k].attempt >= 2
    /\ decide.nextIndex = 1
    /\ decide.invoked[1] = 0

\* the handler of cell i was called
HandlerCalled(i) == i < decide.length /\ decide.invoked[i] >= 1

\* the handler of cell i has ended, with one result
HandlerEnded(i) == i < decide.length /\ decide.settled[i] = 1

\* C39: for each cell at most 3 upstream calls are made, and the handler
\* of the cell always ends with exactly one result, whatever the upstream
\* calls do
C39_CellHandlerEnds ==
    /\ [](\A i \in 0 .. decide.length - 1 :
             /\ decide.upstream[i] <= 3
             /\ decide.settled[i] <= 1)
    /\ \A i \in 0 .. MaxDecideCells - 1 : HandlerCalled(i) ~> HandlerEnded(i)

\* a cell has had its three upstream calls and ended with an error result
C39_Witness ==
    /\ decide.length >= 1
    /\ decide.upstream[0] = 3
    /\ decide.settled[0] = 1
    /\ decide.results[0] = [cellId |-> 0, ok |-> FALSE, status |-> 429]

\* asyncPool has resolved, or has got as far as it gets
PoolOutcome ==
    /\ decide.phase = "responded" =>
           \A i \in 0 .. decide.length - 1 :
               /\ decide.invoked[i] = 1
               /\ decide.results[i] # NoResult
               /\ decide.results[i].cellId = i
    /\ \A i \in 0 .. decide.length - 1 : decide.invoked[i] <= 1

\* C40 as stated: for every concurrency >= 1, asyncPool calls fn exactly
\* once for every item and returns the results in the order of the items
C40_PoolCallsEachOnceAsStated ==
    /\ PoolOutcome
    /\ decide.phase # "threw"

\* C40 as the code has it: the same for every concurrency that is a whole
\* number; for any other, asyncPool throws before fn is called at all
C40_PoolCallsEachOnce ==
    /\ PoolOutcome
    /\ decide.phase = "threw" <=>
           ~IsWhole(maxConcurrencyOf(decide.payload))
    /\ decide.phase = "threw" =>
           \A i \in 0 .. decide.length - 1 : decide.invoked[i] = 0

\* two items went to two workers and the second was finished before the
\* first, which is on a retry
C40_Witness ==
    /\ decide.phase = "serving"
    /\ decide.payload = [has |-> TRUE, maxConcurrency |-> Whole(2)]
    /\ decide.length = 2
    /\ decide.settled[1] = 1
    /\ decide.settled[0] = 0
    /\ decide.upstream[0] = 2
    /\ decide.results[1].ok
    /\ decide.results[0] = NoResult

==========================================================================
